---- MODULE Spec2Model ----
(***************************************************************************)
(* Smart_Inventory: the inventory ledger and the dispatch life cycle.      *)
(*                                                                         *)
(* The services are asyncio coroutines over one MongoDB database.  A       *)
(* coroutine runs without interruption between two awaits, and every await *)
(* in the services is one storage call, so one action of this model is one *)
(* storage call together with the local computation that follows it up to  *)
(* the next storage call.  Reads of the hub registry are folded into the   *)
(* neighbouring step: no operation modelled here writes that collection.   *)
(*                                                                         *)
(* One product is modelled; a batch document is identified by              *)
(* <<Hub_ID, Batch_No>> (the unique index of mongodb.py line 49; batch     *)
(* documents are never deleted, so the key stands for the _id as well).    *)
(* Float prices are modelled as exact rationals <<numerator, denominator>>.*)
(***************************************************************************)
EXTENDS Integers, Sequences, FiniteSets, TLC

VARIABLES
    products,    \* InventoryProducts: product id -> master document
    batches,     \* InventoryBatches: <<Hub_ID, Batch_No>> -> batch document
    txlog,       \* StockTransactions, in insertion order
    dispatches,  \* Dispatches, in insertion order; the index is the dispatch_id
    drivers,     \* drivers: driver_id -> status
    vehicles,    \* vehicles: Vehicle_ID -> Status
    now,         \* the clock read by a stock-in call (orders created_at)
    calls,       \* how many stock-in and dispatch calls have been started
    pc,          \* per request handler: the storage call it is about to make
    loc,         \* per request handler: the local variables of its coroutine
    result,      \* per request handler: what its last call returned or raised
    trip         \* history: the Dispatch, assignment and MarkReceived of one
                 \* dispatch, as long as they run with no other call under way

vars == <<products, batches, txlog, dispatches, drivers, vehicles, now, calls,
          pc, loc, result, trip>>

dbvars == <<products, batches, txlog, dispatches, drivers, vehicles>>

----------------------------------------------------------------------------
(* Bounds of the model *)

MaxRegs == 2

MaxDispatches == 2

MaxQty == 2

----------------------------------------------------------------------------
(* The universe the calls draw from *)

Procs == {"p1", "p2"}

SerialProc == "p1"

Hubs == {"A", "B"}

UnknownHub == "X"

ProductId == "P1"

Drivers == {"x1"}

Vehicles == {"v1"}

NoBatchNo == <<"none", 0>>

UserBatchNo == <<"user", 1>>

GenBatchNo(n) == <<"gen", n>>

Unassigned == "In-Progress"

----------------------------------------------------------------------------
(* Exact arithmetic on prices *)

Abs(n) == IF n < 0 THEN -n ELSE n

RECURSIVE GCD(_, _)
GCD(a, b) == IF b = 0 THEN a ELSE GCD(b, a % b)

Rat(n, d) ==
    LET g == GCD(Abs(n), d)
    IN  IF n = 0 THEN <<0, 1>> ELSE <<n \div g, d \div g>>

RatZero == <<0, 1>>

RatAdd(a, b) == Rat(a[1] * b[2] + b[1] * a[2], a[2] * b[2])

RatMulInt(a, k) == Rat(a[1] * k, a[2])

RatDivInt(a, k) == Rat(a[1], a[2] * k)

\* A document without the field Purchase_Unit_Price
MissingPrice == <<0, 0>>

\* A document without the field Expiry_Date / created_at (sorts before any date)
MissingDate == 0

\* A document without the field Purchase_Value
MissingValue == -1

\* batch.get("Purchase_Unit_Price", 0.0)
GetUnitPrice(doc) ==
    IF doc.Purchase_Unit_Price = MissingPrice THEN RatZero
    ELSE doc.Purchase_Unit_Price

\* batch.get("Purchase_Value", 0.0)
GetValue(doc) ==
    IF doc.Purchase_Value = MissingValue THEN 0 ELSE doc.Purchase_Value

----------------------------------------------------------------------------
(* Queries *)

\* an empty collection
EmptyFn == [x \in {} |-> 0]

\* a hub check that finds every hub
AnyHub(h) == TRUE

\* _ensure_hub_exists: the hub registry holds the hubs of Hubs
HubExists(h) == h \in Hubs

ActiveKeys(h) ==
    {k \in DOMAIN batches : k[1] = h /\ batches[k].status = "active"}

RECURSIVE SumQuantity(_)
SumQuantity(S) ==
    IF S = {} THEN 0
    ELSE LET k == CHOOSE x \in S : TRUE
         IN  batches[k].Quantity + SumQuantity(S \ {k})

\* _get_total_available: $match status active, $sum Quantity
TotalAvailable(h) == SumQuantity(ActiveKeys(h))

\* the filter of the FIFO cursor
CursorKeys(h) == {k \in ActiveKeys(h) : batches[k].Quantity > 0}

\* a sort on ("created_at", 1) alone
SortsByCreation(k1, k2) ==
    batches[k1].created_at <= batches[k2].created_at

\* sort [("Expiry_Date", 1), ("created_at", 1)]
SortsBefore(k1, k2) ==
    \/ batches[k1].Expiry_Date < batches[k2].Expiry_Date
    \/ /\ batches[k1].Expiry_Date = batches[k2].Expiry_Date
       /\ batches[k1].created_at <= batches[k2].created_at

\* every order the cursor may return the matching documents in (documents
\* that tie on both sort keys come in an order MongoDB does not fix)
CursorOrders(h) ==
    LET S == CursorKeys(h)
        n == Cardinality(S)
    IN  {s \in [1..n -> S] :
            /\ \A i, j \in 1..n : i # j => s[i] # s[j]
            /\ \A i, j \in 1..n : i < j => SortsBefore(s[i], s[j])}

\* the documents as the cursor read them
CursorDocs(order) ==
    [i \in 1..Len(order) |->
        [Hub_ID |-> order[i][1], Batch_No |-> order[i][2],
         Quantity |-> batches[order[i]].Quantity,
         Purchase_Unit_Price |-> batches[order[i]].Purchase_Unit_Price]]

\* the system-wide stock of the product: the active batches of every hub
SystemTotal ==
    SumQuantity({k \in DOMAIN batches : batches[k].status = "active"})

NoLocal == [op |-> "none"]

Idle(p) == pc[p] = "idle"

----------------------------------------------------------------------------
(* The history variable trip.  No action reads it.  It follows a Dispatch    *)
(* call, the assignment of the dispatch it created and the MarkReceived of   *)
(* that dispatch while each of them runs alone (no other handler has a call  *)
(* under way) and succeeds, and remembers the system-wide stock and the      *)
(* stock of the source hub before the Dispatch.                              *)

NoTrip == [phase |-> "none", before |-> 0, hub_before |-> 0, dispatch_id |-> 0]

Alone(p) == \A q \in DOMAIN pc : q # p => pc[q] = "idle"

TripDone(phase) ==
    CASE phase = "dispatch" -> "dispatched"
      [] phase = "assign" -> "assigned"
      [] phase = "receive" -> "received"
      [] OTHER -> "none"

\* handler p moves to label with locals l; ok: a call that ends, ends well
TripAfter(p, label, l, ok) ==
    IF ~Alone(p) THEN NoTrip
    ELSE IF pc[p] = "idle"
    THEN IF label = "disp_cursor"
         THEN [phase |-> "dispatch", before |-> SystemTotal,
               hub_before |-> TotalAvailable(l.in.From_Hub_ID),
               dispatch_id |-> 0]
         ELSE IF /\ label = "asg_driver"
                 /\ trip.phase = "dispatched"
                 /\ l.dispatch = trip.dispatch_id
         THEN [trip EXCEPT !.phase = "assign"]
         ELSE IF /\ label \in {"rcv_tx", "rcv_driver"}
                 /\ trip.phase = "assigned"
                 /\ l.dispatch_id = trip.dispatch_id
         THEN [trip EXCEPT !.phase = "receive"]
         ELSE NoTrip
    ELSE IF trip.phase = "none" THEN NoTrip
    ELSE IF label = "disp_remaining"
    THEN [trip EXCEPT !.dispatch_id = l.dispatch_id]
    ELSE IF label = "idle"
    THEN IF ok /\ TripDone(trip.phase) # "none"
         THEN [trip EXCEPT !.phase = TripDone(@)] ELSE NoTrip
    ELSE trip

Finish(p, res) ==
    /\ pc' = [pc EXCEPT ![p] = "idle"]
    /\ loc' = [loc EXCEPT ![p] = NoLocal]
    /\ result' = [result EXCEPT ![p] = res]
    /\ trip' = TripAfter(p, "idle", NoLocal, res.kind = "ok")

Goto(p, label, l) ==
    /\ pc' = [pc EXCEPT ![p] = label]
    /\ loc' = [loc EXCEPT ![p] = l]
    /\ UNCHANGED result
    /\ trip' = TripAfter(p, label, l, TRUE)

----------------------------------------------------------------------------
(* The state after start-up: empty collections, idle fleet *)

Init ==
    /\ products = EmptyFn
    /\ batches = EmptyFn
    /\ txlog = <<>>
    /\ dispatches = <<>>
    /\ drivers = [d \in Drivers |-> "active"]
    /\ vehicles = [v \in Vehicles |-> "Available"]
    /\ now = 0
    /\ calls = [reg |-> 0, disp |-> 0]
    /\ pc = [p \in Procs |-> "idle"]
    /\ loc = [p \in Procs |-> NoLocal]
    /\ result = [p \in Procs |-> [kind |-> "none", op |-> "none"]]
    /\ trip = NoTrip

----------------------------------------------------------------------------
(* register_inventory (RegisterIncoming) *)

\* the master document of lines 87-96
MasterDoc(in) ==
    [Product_Name |-> in.Product_Name, Category |-> in.Category,
     Brand |-> in.Brand, Selling_Price |-> in.Selling_Price,
     Product_Description |-> in.Product_Description]

NoDescription == "none"

\* a registration of an existing product replacing its master document
MasterReplace(doc, read, in) == MasterDoc(in)

\* update_master of lines 105-109: what a registration of an existing product
\* writes, decided against the master document as it was read
MasterUpdate(doc, read, in) ==
    [doc EXCEPT
        !.Selling_Price =
            IF read.Selling_Price # in.Selling_Price
            THEN in.Selling_Price ELSE @,
        !.Product_Description =
            IF /\ in.Product_Description # NoDescription
               /\ in.Product_Description # read.Product_Description
            THEN in.Product_Description ELSE @]

\* unit_price of line 129 (Quantity > 0 is enforced by the request schema)
UnitPrice(in) == Rat(in.Value, in.Quantity)

\* the plain mean of the old and the incoming unit price
MeanUnitPrice(old, in) ==
    RatDivInt(RatAdd(GetUnitPrice(old), UnitPrice(in)), 2)

\* new_unit_price of line 137, from the batch document as it was read
MergedUnitPrice(old, in) ==
    LET old_qty == old.Quantity
        new_qty == old_qty + in.Quantity
    IN  IF new_qty > 0
        THEN RatDivInt(RatAdd(RatMulInt(GetUnitPrice(old), old_qty),
                              RatMulInt(UnitPrice(in), in.Quantity)), new_qty)
        ELSE UnitPrice(in)

\* the $inc of Quantity and Purchase_Value of lines 140 and 170
IncStock(doc, in) ==
    [doc EXCEPT !.Quantity = @ + in.Quantity,
                !.Purchase_Value = GetValue(doc) + in.Value]

\* lines 72-85: hub check, clock, lookup of the product master
RegisterStart(p, in) ==
    /\ Idle(p)
    /\ calls.reg < MaxRegs
    /\ calls' = [calls EXCEPT !.reg = @ + 1]
    /\ now' = now + 1
    /\ UNCHANGED dbvars
    /\ IF ~HubExists(in.Hub_ID)
       THEN Finish(p, [kind |-> "HubNotFound", op |-> "register"])
       ELSE Goto(p, "reg_master",
                 [op |-> "register", in |-> in, now |-> now',
                  master_found |-> ProductId \in DOMAIN products,
                  master |-> IF ProductId \in DOMAIN products
                             THEN products[ProductId] ELSE MasterDoc(in)])

\* lines 86-113: insert the master, or update what changed
RegisterMaster(p) ==
    /\ pc[p] = "reg_master"
    /\ UNCHANGED <<batches, txlog, dispatches, drivers, vehicles, now, calls>>
    /\ LET l == loc[p] IN
       IF ~l.master_found
       THEN IF ProductId \in DOMAIN products
            THEN \* DuplicateKeyError on Product_ID (mongodb.py line 46)
                 /\ UNCHANGED products
                 /\ Goto(p, "reg_refetch", l)
            ELSE /\ products' = (ProductId :> MasterDoc(l.in)) @@ products
                 /\ Goto(p, "reg_find", l)
       ELSE /\ products' = [products EXCEPT ![ProductId] =
                                MasterUpdate(@, l.master, l.in)]
            /\ Goto(p, "reg_find", l)

\* line 102: re-fetch of the master after losing the insert race
RegisterRefetch(p) ==
    /\ pc[p] = "reg_refetch"
    /\ UNCHANGED <<dbvars, now, calls>>
    /\ Goto(p, "reg_find", [loc[p] EXCEPT !.master = products[ProductId]])

\* the documents the find_one of lines 118-127 may return
MergeTargets(in) ==
    IF in.Batch_No # NoBatchNo
    THEN {k \in DOMAIN batches : k = <<in.Hub_ID, in.Batch_No>>}
    ELSE {k \in ActiveKeys(in.Hub_ID) :
             batches[k].Expiry_Date = in.Expiry_Date}

\* lines 115-127: look for the batch to merge into
RegisterFindBatch(p) ==
    /\ pc[p] = "reg_find"
    /\ UNCHANGED <<dbvars, now, calls>>
    /\ LET l == loc[p] IN
       IF MergeTargets(l.in) = {}
       THEN Goto(p, "reg_insert", l)
       ELSE \E k \in MergeTargets(l.in) :
               Goto(p, "reg_merge",
                    [op |-> "register", in |-> l.in, now |-> l.now,
                     key |-> k, existing |-> batches[k]])

\* lines 131-145: merge into the batch that was found
RegisterMerge(p) ==
    /\ pc[p] = "reg_merge"
    /\ UNCHANGED <<products, txlog, dispatches, drivers, vehicles, now, calls>>
    /\ LET l == loc[p] IN
       /\ batches' = [batches EXCEPT ![l.key] =
                         [IncStock(@, l.in) EXCEPT
                             !.Purchase_Unit_Price =
                                 MergedUnitPrice(l.existing, l.in)]]
       /\ Goto(p, "reg_tx",
               [op |-> "register", in |-> l.in, now |-> l.now,
                batch_no_used |-> l.key[2]])

\* the batch number of lines 148-149
NewBatchNo(in, tick) ==
    IF in.Batch_No # NoBatchNo THEN in.Batch_No ELSE GenBatchNo(tick)

\* batch_doc of lines 150-161
BatchDoc(in, tick) ==
    [Quantity |-> in.Quantity, Expiry_Date |-> in.Expiry_Date,
     Purchase_Value |-> in.Value, Purchase_Unit_Price |-> UnitPrice(in),
     status |-> "active", created_at |-> tick]

\* lines 146-166: create the batch; a taken key raises DuplicateKeyError
RegisterInsert(p) ==
    /\ pc[p] = "reg_insert"
    /\ UNCHANGED <<products, txlog, dispatches, drivers, vehicles, now, calls>>
    /\ LET l == loc[p]
           k == <<l.in.Hub_ID, NewBatchNo(l.in, l.now)>>
       IN  IF k \in DOMAIN batches
           THEN /\ UNCHANGED batches
                /\ Goto(p, "reg_fb_find",
                        [op |-> "register", in |-> l.in, now |-> l.now, key |-> k])
           ELSE /\ batches' = (k :> BatchDoc(l.in, l.now)) @@ batches
                /\ Goto(p, "reg_tx",
                        [op |-> "register", in |-> l.in, now |-> l.now,
                         batch_no_used |-> k[2]])

\* line 168: the fallback looks the batch up again
RegisterFallbackFind(p) ==
    /\ pc[p] = "reg_fb_find"
    /\ UNCHANGED <<dbvars, now, calls>>
    /\ IF loc[p].key \in DOMAIN batches
       THEN Goto(p, "reg_fb_merge", loc[p])
       ELSE Finish(p, [kind |-> "DuplicateKeyError", op |-> "register"])

\* the fallback merge of line 170 answering at once, without the transaction
RegisterFallbackMergeUnlogged(p) ==
    /\ pc[p] = "reg_fb_merge"
    /\ UNCHANGED <<products, txlog, dispatches, drivers, vehicles, now, calls>>
    /\ LET l == loc[p] IN
       /\ batches' = [batches EXCEPT ![l.key] = IncStock(@, l.in)]
       /\ Finish(p, [kind |-> "ok", op |-> "register",
                     Batch_No |-> l.key[2],
                     Quantity_Added |-> l.in.Quantity])

\* line 170: the fallback adds quantity and value, not the unit price
RegisterFallbackMerge(p) ==
    /\ pc[p] = "reg_fb_merge"
    /\ UNCHANGED <<products, txlog, dispatches, drivers, vehicles, now, calls>>
    /\ LET l == loc[p] IN
       /\ batches' = [batches EXCEPT ![l.key] = IncStock(@, l.in)]
       /\ Goto(p, "reg_tx",
               [op |-> "register", in |-> l.in, now |-> l.now,
                batch_no_used |-> l.key[2]])

NoReference == 0

\* txn of lines 178-190
RegisterTxn(in, batch_no_used) ==
    [type |-> "IN", Hub_ID |-> in.Hub_ID, Batch_No |-> batch_no_used,
     Quantity |-> in.Quantity, Unit_Price |-> UnitPrice(in),
     Total_Value |-> Rat(in.Value, 1), reference |-> NoReference]

\* the clock: now counts ticks, and an Expiry_Date is a day
TicksPerDay == 2

\* the threshold of lines 197 and 323
WarnDays == 30

\* _to_utc_datetime_from_date: the midnight that starts the day
ExpiryInstant(d) == d * TicksPerDay

\* (expiry_dt - now).days: whole days, rounded down
DaysLeft(expiry, tick) == (ExpiryInstant(expiry) - tick) \div TicksPerDay

\* the warning rule with the threshold day included
ExpiryWarningWithin(expiry, tick) == DaysLeft(expiry, tick) <= WarnDays

\* lines 195-198 and 322-324: is a warning due
ExpiryWarning(expiry, tick) == DaysLeft(expiry, tick) < WarnDays

\* lines 177-209: log the IN transaction and answer
RegisterTx(p) ==
    /\ pc[p] = "reg_tx"
    /\ UNCHANGED <<products, batches, dispatches, drivers, vehicles, now, calls>>
    /\ LET l == loc[p] IN
       /\ txlog' = Append(txlog, RegisterTxn(l.in, l.batch_no_used))
       /\ Finish(p, [kind |-> "ok", op |-> "register",
                     Batch_No |-> l.batch_no_used,
                     Quantity_Added |-> l.in.Quantity,
                     warning |-> ExpiryWarning(l.in.Expiry_Date, l.now)])

----------------------------------------------------------------------------
(* update_inventory (UpdateMaster / AddStock) *)

\* payload fields that were not given (None)
NoQuantity == 0

NoValue == MissingValue

NoSellingPrice == MissingValue

NoField == "none"

\* a master update that writes every field of the payload, given or not
MasterFieldsAll(doc, in) ==
    [Product_Name |-> in.Product_Name, Selling_Price |-> in.Selling_Price,
     Category |-> in.Category, Product_Description |-> in.Product_Description,
     Brand |-> in.Brand]

\* master_update of lines 233-243: the fields the payload gives
MasterFields(doc, in) ==
    [Product_Name |->
         IF in.Product_Name # NoField THEN in.Product_Name ELSE doc.Product_Name,
     Selling_Price |->
         IF in.Selling_Price # NoSellingPrice
         THEN in.Selling_Price ELSE doc.Selling_Price,
     Category |->
         IF in.Category # NoField THEN in.Category ELSE doc.Category,
     Product_Description |->
         IF in.Product_Description # NoField
         THEN in.Product_Description ELSE doc.Product_Description,
     Brand |-> IF in.Brand # NoField THEN in.Brand ELSE doc.Brand]

\* line 244: is there a master field to write
HasMasterUpdate(in) ==
    \/ in.Product_Name # NoField
    \/ in.Selling_Price # NoSellingPrice
    \/ in.Category # NoField
    \/ in.Product_Description # NoField
    \/ in.Brand # NoField

\* "unit_price or fallback" with unit_price of line 258: None without a Value,
\* and a price of 0.0 counts as absent too
UnitPriceOr(in, fallback) ==
    IF in.Value = NoValue \/ in.Value = 0
    THEN fallback ELSE Rat(in.Value, in.Quantity)

\* float(payload.Value or 0.0)
ValueOrZero(in) == IF in.Value = NoValue THEN 0 ELSE in.Value

\* new_unit_price of line 271, from the batch document as it was read
AddedUnitPrice(old, in) ==
    LET old_qty == old.Quantity
        new_qty == old_qty + in.Quantity
        price == UnitPriceOr(in, GetUnitPrice(old))
    IN  IF new_qty > 0
        THEN RatDivInt(RatAdd(RatMulInt(GetUnitPrice(old), old_qty),
                              RatMulInt(price, in.Quantity)), new_qty)
        ELSE price

\* the $inc of line 274 without its Quantity: the value alone is added
AddValueOnly(doc, in) ==
    [doc EXCEPT !.Purchase_Value = GetValue(doc) + ValueOrZero(in)]

\* the $inc of line 274
AddStock(doc, in) ==
    [doc EXCEPT !.Quantity = @ + in.Quantity,
                !.Purchase_Value = GetValue(doc) + ValueOrZero(in)]

\* lines 256-264 continue the call once the master is dealt with
UpdateGoOn(p, in, tick) ==
    IF in.Quantity = NoQuantity
    THEN Finish(p, [kind |-> "ok", op |-> "update", stock |-> FALSE])
    ELSE Goto(p, "upd_find", [op |-> "update", in |-> in, now |-> tick])

\* lines 217-252: hub check, clock, lookup of the product master
UpdateStart(p, in) ==
    /\ Idle(p)
    /\ calls.reg < MaxRegs
    /\ calls' = [calls EXCEPT !.reg = @ + 1]
    /\ now' = now + 1
    /\ UNCHANGED dbvars
    /\ IF ~HubExists(in.Hub_ID)
       THEN Finish(p, [kind |-> "HubNotFound", op |-> "update"])
       ELSE IF ProductId \notin DOMAIN products
       THEN Finish(p, [kind |-> "ProductNotFound", op |-> "update"])
       ELSE IF HasMasterUpdate(in)
       THEN Goto(p, "upd_master", [op |-> "update", in |-> in, now |-> now'])
       ELSE UpdateGoOn(p, in, now')

\* line 246: write the master fields
UpdateMaster(p) ==
    /\ pc[p] = "upd_master"
    /\ UNCHANGED <<batches, txlog, dispatches, drivers, vehicles, now, calls>>
    /\ products' = [products EXCEPT ![ProductId] = MasterFields(@, loc[p].in)]
    /\ UpdateGoOn(p, loc[p].in, loc[p].now)

\* the documents the find_one of lines 261-264 may return
AddTargets(in) ==
    IF in.Batch_No # NoBatchNo
    THEN {k \in DOMAIN batches : k = <<in.Hub_ID, in.Batch_No>>}
    ELSE IF in.Expiry_Date # MissingDate
    THEN {k \in ActiveKeys(in.Hub_ID) :
             batches[k].Expiry_Date = in.Expiry_Date}
    ELSE {}

\* lines 256-266: look for the batch to merge into
UpdateFindBatch(p) ==
    /\ pc[p] = "upd_find"
    /\ UNCHANGED <<dbvars, now, calls>>
    /\ LET l == loc[p] IN
       IF AddTargets(l.in) = {}
       THEN Goto(p, "upd_insert", l)
       ELSE \E k \in AddTargets(l.in) :
               Goto(p, "upd_merge",
                    [op |-> "update", in |-> l.in, now |-> l.now,
                     key |-> k, existing |-> batches[k]])

\* lines 266-280: merge into the batch that was found
UpdateMerge(p) ==
    /\ pc[p] = "upd_merge"
    /\ UNCHANGED <<products, txlog, dispatches, drivers, vehicles, now, calls>>
    /\ LET l == loc[p] IN
       /\ batches' = [batches EXCEPT ![l.key] =
                         [AddStock(@, l.in) EXCEPT
                             !.Purchase_Unit_Price =
                                 AddedUnitPrice(l.existing, l.in)]]
       /\ Goto(p, "upd_tx",
               [op |-> "update", in |-> l.in, now |-> l.now,
                batch_no_used |-> l.key[2], merged |-> TRUE])

\* batch_doc of lines 285-296
AddedBatchDoc(in, tick) ==
    [Quantity |-> in.Quantity, Expiry_Date |-> in.Expiry_Date,
     Purchase_Value |-> ValueOrZero(in),
     Purchase_Unit_Price |-> UnitPriceOr(in, RatZero),
     status |-> "active", created_at |-> tick]

\* lines 281-300: create the batch; a taken key raises DuplicateKeyError,
\* which this function does not catch
UpdateInsert(p) ==
    /\ pc[p] = "upd_insert"
    /\ UNCHANGED <<products, txlog, dispatches, drivers, vehicles, now, calls>>
    /\ LET l == loc[p]
           k == <<l.in.Hub_ID, NewBatchNo(l.in, l.now)>>
       IN  IF k \in DOMAIN batches
           THEN /\ UNCHANGED batches
                /\ Finish(p, [kind |-> "DuplicateKeyError", op |-> "update"])
           ELSE /\ batches' = (k :> AddedBatchDoc(l.in, l.now)) @@ batches
                /\ Goto(p, "upd_tx",
                        [op |-> "update", in |-> l.in, now |-> l.now,
                         batch_no_used |-> k[2], merged |-> FALSE])

\* txn of lines 303-315
UpdateTxn(in, batch_no_used) ==
    [type |-> "IN", Hub_ID |-> in.Hub_ID, Batch_No |-> batch_no_used,
     Quantity |-> in.Quantity, Unit_Price |-> UnitPriceOr(in, RatZero),
     Total_Value |-> Rat(ValueOrZero(in), 1), reference |-> NoReference]

\* the insert of line 316 writing over the newest transaction of the log
UpdateTxRewriting(p) ==
    /\ pc[p] = "upd_tx"
    /\ UNCHANGED <<products, batches, dispatches, drivers, vehicles, now, calls>>
    /\ txlog' = [txlog EXCEPT
                    ![Len(txlog)] = UpdateTxn(loc[p].in, loc[p].batch_no_used)]
    /\ Goto(p, "upd_return", loc[p])

\* lines 302-317: log the IN transaction
UpdateTx(p) ==
    /\ pc[p] = "upd_tx"
    /\ UNCHANGED <<products, batches, dispatches, drivers, vehicles, now, calls>>
    /\ txlog' = Append(txlog, UpdateTxn(loc[p].in, loc[p].batch_no_used))
    /\ Goto(p, "upd_return", loc[p])

\* line 332: find_one({"Batch_No": batch_no_used}) names no hub
BatchesNumbered(batch_no) == {k \in DOMAIN batches : k[2] = batch_no}

\* lines 320-325: a warning is due only when an expiry date was given
UpdateWarning(in, tick) ==
    in.Expiry_Date # MissingDate /\ ExpiryWarning(in.Expiry_Date, tick)

\* lines 319-334: read the batch back and answer
UpdateReturn(p) ==
    /\ pc[p] = "upd_return"
    /\ UNCHANGED <<dbvars, now, calls>>
    /\ LET l == loc[p] IN
       \E k \in BatchesNumbered(l.batch_no_used) :
          Finish(p, [kind |-> "ok", op |-> "update", stock |-> TRUE,
                     Hub_ID |-> l.in.Hub_ID,
                     Batch_No |-> l.batch_no_used, Merged |-> l.merged,
                     Quantity_Added |-> l.in.Quantity,
                     NewQuantityTotalInBatch |-> batches[k].Quantity,
                     warning |-> UpdateWarning(l.in, l.now)])

----------------------------------------------------------------------------
(* dispatch_inventory (Dispatch / createDispatch with consumeFIFO) *)

\* the availability check with the comparison off by one at equality
InsufficientStockAtEqual(qty_to_dispatch, total_available) ==
    qty_to_dispatch >= total_available

\* line 357: the aggregate availability check
InsufficientStock(qty_to_dispatch, total_available) ==
    qty_to_dispatch > total_available

\* lines 342-359: hub checks and the availability check
DispatchStart(p, in) ==
    /\ Idle(p)
    /\ calls.disp < MaxDispatches
    /\ calls' = [calls EXCEPT !.disp = @ + 1]
    /\ UNCHANGED <<dbvars, now>>
    /\ IF ~HubExists(in.From_Hub_ID) \/ ~HubExists(in.To_Hub_ID)
       THEN Finish(p, [kind |-> "HubNotFound", op |-> "dispatch"])
       ELSE IF InsufficientStock(in.Quantity, TotalAvailable(in.From_Hub_ID))
       THEN Finish(p, [kind |-> "InsufficientStock", op |-> "dispatch",
                       requested |-> in.Quantity,
                       available |-> TotalAvailable(in.From_Hub_ID),
                       hub |-> in.From_Hub_ID])
       ELSE Goto(p, "disp_cursor", [op |-> "dispatch", in |-> in])

\* line 377
Take(available_in_batch, remaining) ==
    IF available_in_batch <= remaining THEN available_in_batch ELSE remaining

\* lines 361-371: the cursor fetches the active batches with stock, sorted
DispatchCursor(p) ==
    /\ pc[p] = "disp_cursor"
    /\ UNCHANGED <<dbvars, now, calls>>
    /\ \E order \in CursorOrders(loc[p].in.From_Hub_ID) :
          LET l == [op |-> "dispatch", in |-> loc[p].in,
                    cursor |-> CursorDocs(order),
                    remaining |-> loc[p].in.Quantity,
                    batch_consumption |-> <<>>]
          IN  IF order = <<>>
              THEN Goto(p, "disp_insert", l)
              ELSE Goto(p, "disp_dec", l)

\* an update that takes one unit whatever the take
DecrementByOne(doc, take) == [doc EXCEPT !.Quantity = @ - 1]

\* the update of line 380: an unconditional $inc by -take
Decrement(doc, take) == [doc EXCEPT !.Quantity = @ - take]

\* lines 372-380: take from the batch the cursor stands on
DispatchDec(p) ==
    /\ pc[p] = "disp_dec"
    /\ UNCHANGED <<products, txlog, dispatches, drivers, vehicles, now, calls>>
    /\ LET l == loc[p]
           batch == Head(l.cursor)
           k == <<batch.Hub_ID, batch.Batch_No>>
       IN  /\ batches' = [batches EXCEPT
                            ![k] = Decrement(@, Take(batch.Quantity, l.remaining))]
           /\ Goto(p, "disp_reread", l)

\* line 383: does the batch count as used up
BecameZero(doc) == doc.Quantity <= 0

\* lines 382-383: read the batch back
DispatchReread(p) ==
    /\ pc[p] = "disp_reread"
    /\ UNCHANGED <<dbvars, now, calls>>
    /\ LET l == loc[p]
           batch == Head(l.cursor)
           k == <<batch.Hub_ID, batch.Batch_No>>
       IN  IF BecameZero(batches[k])
           THEN Goto(p, "disp_deplete", l)
           ELSE Goto(p, "disp_tx", l)

\* line 384: mark the batch depleted
DispatchDeplete(p) ==
    /\ pc[p] = "disp_deplete"
    /\ UNCHANGED <<products, txlog, dispatches, drivers, vehicles, now, calls>>
    /\ LET l == loc[p]
           batch == Head(l.cursor)
           k == <<batch.Hub_ID, batch.Batch_No>>
       IN  /\ batches' = [batches EXCEPT ![k] = [@ EXCEPT !.status = "depleted"]]
           /\ Goto(p, "disp_tx", l)

\* lines 386-387: one entry of the consumption trace
Consumption(batch, take) ==
    [Batch_No |-> batch.Batch_No, Qty |-> take,
     Unit_Cost |-> GetUnitPrice(batch)]

\* the txn of lines 390-402 logging all the batch held instead of the take
DispatchTxnOfWholeBatch(batch, take) ==
    [type |-> "OUT", Hub_ID |-> batch.Hub_ID, Batch_No |-> batch.Batch_No,
     Quantity |-> batch.Quantity, Unit_Price |-> GetUnitPrice(batch),
     Total_Value |-> RatMulInt(GetUnitPrice(batch), batch.Quantity),
     reference |-> NoReference]

\* txn of lines 390-402
DispatchTxn(batch, take) ==
    [type |-> "OUT", Hub_ID |-> batch.Hub_ID, Batch_No |-> batch.Batch_No,
     Quantity |-> take, Unit_Price |-> GetUnitPrice(batch),
     Total_Value |-> RatMulInt(GetUnitPrice(batch), take),
     reference |-> NoReference]

\* lines 371-373 and 386-411: record the step, log OUT, advance the cursor
DispatchTx(p) ==
    /\ pc[p] = "disp_tx"
    /\ UNCHANGED <<products, batches, dispatches, drivers, vehicles, now, calls>>
    /\ LET l == loc[p]
           batch == Head(l.cursor)
           take == Take(batch.Quantity, l.remaining)
           next == [l EXCEPT
                       !.cursor = Tail(@),
                       !.remaining = @ - take,
                       !.batch_consumption = Append(@, Consumption(batch, take))]
       IN  /\ txlog' = Append(txlog, DispatchTxn(batch, take))
           /\ IF next.cursor = <<>> \/ next.remaining <= 0
              THEN Goto(p, "disp_insert", next)
              ELSE Goto(p, "disp_dec", next)

\* disp_doc of lines 415-428
DispatchDoc(in, batch_consumption) ==
    [From_Hub_ID |-> in.From_Hub_ID, To_Hub_ID |-> in.To_Hub_ID,
     Quantity |-> in.Quantity, Batch_Consumption |-> batch_consumption,
     Vehicle_Assigned |-> Unassigned, Driver_Assigned |-> Unassigned,
     Status |-> "In-Progress", Arrival_Time |-> FALSE]

\* lines 413-430: persist the dispatch record
DispatchInsert(p) ==
    /\ pc[p] = "disp_insert"
    /\ UNCHANGED <<products, batches, txlog, drivers, vehicles, now, calls>>
    /\ LET l == loc[p] IN
       /\ dispatches' = Append(dispatches, DispatchDoc(l.in, l.batch_consumption))
       /\ Goto(p, "disp_remaining",
               [op |-> "dispatch", in |-> l.in,
                batch_consumption |-> l.batch_consumption,
                dispatch_id |-> Len(dispatches) + 1])

\* lines 432-448: read the remaining stock and answer
DispatchRemaining(p) ==
    /\ pc[p] = "disp_remaining"
    /\ UNCHANGED <<dbvars, now, calls>>
    /\ LET l == loc[p] IN
       Finish(p, [kind |-> "ok", op |-> "dispatch",
                  dispatch_id |-> l.dispatch_id,
                  Quantity_Dispatched |-> l.in.Quantity,
                  Batch_Consumption |-> l.batch_consumption,
                  Remaining_Quantity |-> TotalAvailable(l.in.From_Hub_ID)])

\* lines 361-430: the call stops at the storage call it is about to make (the
\* call raises, or the process ends); nothing catches the error or undoes the
\* writes made so far, and the locals of the coroutine are gone
DispatchStop(p) ==
    /\ pc[p] \in {"disp_cursor", "disp_dec", "disp_reread", "disp_deplete",
                  "disp_tx", "disp_insert", "disp_remaining"}
    /\ UNCHANGED <<dbvars, now, calls>>
    /\ Finish(p, [kind |-> "Stopped", op |-> "dispatch", at |-> pc[p]])

----------------------------------------------------------------------------
(* dispatch_vehicle_service (assignResources) *)

\* find_one({"Status": "In-Progress"}): any pending dispatch (no sort is given)
PendingDispatches == {d \in DOMAIN dispatches : dispatches[d].Status = "In-Progress"}

\* find_one({"status": "active"})
IdleDrivers == {x \in Drivers : drivers[x] = "active"}

\* find_one({"Status": "Available"})
IdleVehicles == {v \in Vehicles : vehicles[v] = "Available"}

\* lines 127-131: look for a pending dispatch
AssignStart(p) ==
    /\ Idle(p)
    /\ UNCHANGED <<dbvars, now, calls>>
    /\ IF PendingDispatches = {}
       THEN Finish(p, [kind |-> "NoDispatch", op |-> "assign"])
       ELSE \E d \in PendingDispatches :
               Goto(p, "asg_driver", [op |-> "assign", dispatch |-> d])

\* the driver lookup marking the driver it finds busy at once
AssignClaimDriver(p) ==
    /\ pc[p] = "asg_driver"
    /\ UNCHANGED <<products, batches, txlog, dispatches, vehicles, now, calls>>
    /\ IF IdleDrivers = {}
       THEN /\ UNCHANGED drivers
            /\ Finish(p, [kind |-> "NoDriver", op |-> "assign"])
       ELSE \E x \in IdleDrivers :
               /\ drivers' = [drivers EXCEPT ![x] = "Assigned"]
               /\ Goto(p, "asg_vehicle",
                       [op |-> "assign", dispatch |-> loc[p].dispatch, driver |-> x])

\* lines 133-137: look for an idle driver
AssignFindDriver(p) ==
    /\ pc[p] = "asg_driver"
    /\ UNCHANGED <<dbvars, now, calls>>
    /\ IF IdleDrivers = {}
       THEN Finish(p, [kind |-> "NoDriver", op |-> "assign"])
       ELSE \E x \in IdleDrivers :
               Goto(p, "asg_vehicle",
                    [op |-> "assign", dispatch |-> loc[p].dispatch, driver |-> x])

\* lines 139-143: look for an idle vehicle
AssignFindVehicle(p) ==
    /\ pc[p] = "asg_vehicle"
    /\ UNCHANGED <<dbvars, now, calls>>
    /\ IF IdleVehicles = {}
       THEN Finish(p, [kind |-> "NoVehicle", op |-> "assign"])
       ELSE \E v \in IdleVehicles :
               Goto(p, "asg_set_driver",
                    [op |-> "assign", dispatch |-> loc[p].dispatch,
                     driver |-> loc[p].driver, vehicle |-> v])

\* line 146: mark the driver busy
AssignSetDriver(p) ==
    /\ pc[p] = "asg_set_driver"
    /\ UNCHANGED <<products, batches, txlog, dispatches, vehicles, now, calls>>
    /\ drivers' = [drivers EXCEPT ![loc[p].driver] = "Assigned"]
    /\ Goto(p, "asg_set_vehicle", loc[p])

\* line 147: mark the vehicle busy
AssignSetVehicle(p) ==
    /\ pc[p] = "asg_set_vehicle"
    /\ UNCHANGED <<products, batches, txlog, dispatches, drivers, now, calls>>
    /\ vehicles' = [vehicles EXCEPT ![loc[p].vehicle] = "In-Transit"]
    /\ Goto(p, "asg_set_dispatch", loc[p])

\* the $set of lines 150-154 without its Vehicle_Assigned
AssignedWithoutVehicle(doc, driver, vehicle) ==
    [doc EXCEPT !.Status = "In-Transit", !.Driver_Assigned = driver]

\* the $set of lines 150-154
Assigned(doc, driver, vehicle) ==
    [doc EXCEPT !.Status = "In-Transit", !.Driver_Assigned = driver,
                !.Vehicle_Assigned = vehicle]

\* lines 148-158: write the assignment onto the dispatch that was read
AssignSetDispatch(p) ==
    /\ pc[p] = "asg_set_dispatch"
    /\ UNCHANGED <<products, batches, txlog, drivers, vehicles, now, calls>>
    /\ LET l == loc[p] IN
       /\ dispatches' = [dispatches EXCEPT
                            ![l.dispatch] = Assigned(@, l.driver, l.vehicle)]
       /\ Finish(p, [kind |-> "ok", op |-> "assign", dispatch_id |-> l.dispatch,
                     driver |-> l.driver, vehicle |-> l.vehicle])

----------------------------------------------------------------------------
(* mark_dispatch_received_service (MarkReceived) *)

\* the status check refusing only a dispatch that was received already
ReceivableUnlessCompleted(doc) == doc.Status # "Completed"

\* the status check refusing only a dispatch that was never assigned
ReceivableUnlessPending(doc) == doc.Status # "In-Progress"

\* line 39: the only state a dispatch can be received in
Receivable(doc) == doc.Status = "In-Transit"

\* lines 30-47: fetch the dispatch and check its status
ReceiveStart(p, dispatch_id) ==
    /\ Idle(p)
    /\ UNCHANGED <<dbvars, now, calls>>
    /\ IF dispatch_id \notin DOMAIN dispatches
       THEN Finish(p, [kind |-> "DispatchNotFound", op |-> "receive",
                       dispatch_id |-> dispatch_id])
       ELSE IF ~Receivable(dispatches[dispatch_id])
       THEN Finish(p, [kind |-> "InvalidState", op |-> "receive",
                       dispatch_id |-> dispatch_id])
       ELSE LET l == [op |-> "receive", dispatch_id |-> dispatch_id,
                      dispatch |-> dispatches[dispatch_id],
                      todo |-> dispatches[dispatch_id].Batch_Consumption]
            IN  IF l.todo = <<>>
                THEN Goto(p, "rcv_driver", l)
                ELSE Goto(p, "rcv_tx", l)

\* txn of lines 58-70
ReceiveTxn(dispatch_id, dispatch, batch) ==
    [type |-> "IN", Hub_ID |-> dispatch.To_Hub_ID, Batch_No |-> batch.Batch_No,
     Quantity |-> batch.Qty, Unit_Price |-> batch.Unit_Cost,
     Total_Value |-> RatMulInt(batch.Unit_Cost, batch.Qty),
     reference |-> dispatch_id]

\* lines 50-72: log the IN transaction of the next trace entry
ReceiveTx(p) ==
    /\ pc[p] = "rcv_tx"
    /\ UNCHANGED <<products, batches, dispatches, drivers, vehicles, now, calls>>
    /\ LET l == loc[p] IN
       /\ txlog' = Append(txlog, ReceiveTxn(l.dispatch_id, l.dispatch, Head(l.todo)))
       /\ Goto(p, "rcv_upsert", l)

\* the document an upsert creates: the equality fields of the filter and the
\* fields of the update (lines 76-77), nothing else
UpsertedDoc(qty) ==
    [Quantity |-> qty, Expiry_Date |-> MissingDate,
     Purchase_Value |-> MissingValue, Purchase_Unit_Price |-> MissingPrice,
     status |-> "active", created_at |-> MissingDate]

\* the update of line 77 setting the quantity instead of adding to it
Overwritten(doc, qty) == [doc EXCEPT !.Quantity = qty, !.status = "active"]

\* the update of line 77 on a document that exists
Credited(doc, qty) == [doc EXCEPT !.Quantity = @ + qty, !.status = "active"]

\* lines 74-80: upsert the destination batch
ReceiveUpsert(p) ==
    /\ pc[p] = "rcv_upsert"
    /\ UNCHANGED <<products, txlog, dispatches, drivers, vehicles, now, calls>>
    /\ LET l == loc[p]
           batch == Head(l.todo)
           k == <<l.dispatch.To_Hub_ID, batch.Batch_No>>
           next == [l EXCEPT !.todo = Tail(@)]
       IN  /\ batches' = IF k \in DOMAIN batches
                         THEN [batches EXCEPT ![k] = Credited(@, batch.Qty)]
                         ELSE (k :> UpsertedDoc(batch.Qty)) @@ batches
           /\ IF next.todo = <<>>
              THEN Goto(p, "rcv_driver", next)
              ELSE Goto(p, "rcv_tx", next)

\* lines 83-87: release the driver the dispatch document named when it was read
ReceiveDriver(p) ==
    /\ pc[p] = "rcv_driver"
    /\ UNCHANGED <<products, batches, txlog, dispatches, vehicles, now, calls>>
    /\ drivers' = [x \in Drivers |->
                      IF x = loc[p].dispatch.Driver_Assigned
                      THEN "active" ELSE drivers[x]]
    /\ Goto(p, "rcv_vehicle", loc[p])

\* the step of lines 89-93 leaving the vehicle as it is
ReceiveVehicleHeld(p) ==
    /\ pc[p] = "rcv_vehicle"
    /\ UNCHANGED <<dbvars, now, calls>>
    /\ Goto(p, "rcv_dispatch", loc[p])

\* lines 89-93: release the vehicle
ReceiveVehicle(p) ==
    /\ pc[p] = "rcv_vehicle"
    /\ UNCHANGED <<products, batches, txlog, dispatches, drivers, now, calls>>
    /\ vehicles' = [v \in Vehicles |->
                       IF v = loc[p].dispatch.Vehicle_Assigned
                       THEN "Available" ELSE vehicles[v]]
    /\ Goto(p, "rcv_dispatch", loc[p])

\* the $set of line 98
Completed(doc) == [doc EXCEPT !.Status = "Completed", !.Arrival_Time = TRUE]

\* lines 95-108: complete the dispatch
ReceiveDispatch(p) ==
    /\ pc[p] = "rcv_dispatch"
    /\ UNCHANGED <<products, batches, txlog, drivers, vehicles, now, calls>>
    /\ LET l == loc[p] IN
       /\ dispatches' = [dispatches EXCEPT ![l.dispatch_id] = Completed(@)]
       /\ Finish(p, [kind |-> "ok", op |-> "receive",
                     dispatch_id |-> l.dispatch_id,
                     hub |-> l.dispatch.To_Hub_ID])

----------------------------------------------------------------------------
(* What the request handlers are called with *)

RegisterInput(hub, qty, value, expiry, batch_no) ==
    [Hub_ID |-> hub, Quantity |-> qty, Value |-> value, Expiry_Date |-> expiry,
     Batch_No |-> batch_no, Product_Name |-> "rice", Category |-> "grains",
     Brand |-> "none", Selling_Price |-> 45, Product_Description |-> NoDescription]

UpdateInput(hub, qty, value, expiry, batch_no) ==
    [Hub_ID |-> hub, Quantity |-> qty, Value |-> value, Expiry_Date |-> expiry,
     Batch_No |-> batch_no, Product_Name |-> NoField, Category |-> NoField,
     Brand |-> NoField, Selling_Price |-> NoSellingPrice,
     Product_Description |-> NoField]

UpdateSteps(p) ==
    \/ UpdateMaster(p)
    \/ UpdateFindBatch(p)
    \/ UpdateMerge(p)
    \/ UpdateInsert(p)
    \/ UpdateTx(p)
    \/ UpdateReturn(p)

DispatchInput(from, to, qty) ==
    [From_Hub_ID |-> from, To_Hub_ID |-> to, Quantity |-> qty]

\* concurrent handlers: stock comes into hub A, dispatches go from A to B
RegInputs ==
    {RegisterInput("A", MaxQty, 4, 1, UserBatchNo)}

DispatchInputs ==
    {DispatchInput("A", "B", q) : q \in 1..MaxQty}

\* stock added to hub B under the batch number hub A uses, with a new price
UpdInputs ==
    {[UpdateInput("B", 1, 4, 1, UserBatchNo) EXCEPT !.Selling_Price = 50]}

ReceiveInputs == 1..MaxDispatches

RegisterSteps(p) ==
    \/ RegisterMaster(p)
    \/ RegisterRefetch(p)
    \/ RegisterFindBatch(p)
    \/ RegisterMerge(p)
    \/ RegisterInsert(p)
    \/ RegisterFallbackFind(p)
    \/ RegisterFallbackMerge(p)
    \/ RegisterTx(p)

DispatchSteps(p) ==
    \/ DispatchCursor(p)
    \/ DispatchDec(p)
    \/ DispatchReread(p)
    \/ DispatchDeplete(p)
    \/ DispatchTx(p)
    \/ DispatchInsert(p)
    \/ DispatchRemaining(p)

AssignSteps(p) ==
    \/ AssignFindDriver(p)
    \/ AssignFindVehicle(p)
    \/ AssignSetDriver(p)
    \/ AssignSetVehicle(p)
    \/ AssignSetDispatch(p)

ReceiveSteps(p) ==
    \/ ReceiveTx(p)
    \/ ReceiveUpsert(p)
    \/ ReceiveDriver(p)
    \/ ReceiveVehicle(p)
    \/ ReceiveDispatch(p)

\* the whole system: every handler may run any operation at any time
Next ==
    \E p \in Procs :
        \/ \E in \in RegInputs : RegisterStart(p, in)
        \/ RegisterSteps(p)
        \/ \E in \in UpdInputs : UpdateStart(p, in)
        \/ UpdateSteps(p)
        \/ \E in \in DispatchInputs : DispatchStart(p, in)
        \/ DispatchSteps(p)
        \/ AssignStart(p)
        \/ AssignSteps(p)
        \/ \E d \in ReceiveInputs : ReceiveStart(p, d)
        \/ ReceiveSteps(p)

Spec == Init /\ [][Next]_vars

\* the ledger under concurrent stock-in and dispatch calls
NextLedger ==
    \E p \in Procs :
        \/ \E in \in RegInputs : RegisterStart(p, in)
        \/ RegisterSteps(p)
        \/ \E in \in DispatchInputs : DispatchStart(p, in)
        \/ DispatchSteps(p)

SpecLedger == Init /\ [][NextLedger]_vars

\* one handler: every call runs to its end before the next one starts
SerialRegInputs ==
    {RegisterInput(h, q, 4, 1, b) :
        h \in {"A", UnknownHub}, q \in 1..MaxQty, b \in {NoBatchNo, UserBatchNo}}

SerialDispatchInputs ==
    {DispatchInput(f, t, q) :
        f \in Hubs \cup {UnknownHub}, t \in Hubs, q \in 1..MaxQty}

SerialReceiveInputs == 0..MaxDispatches

NextSerial ==
    \E p \in {SerialProc} :
        \/ \E in \in SerialRegInputs : RegisterStart(p, in)
        \/ RegisterMaster(p)
        \/ RegisterFindBatch(p)
        \/ RegisterMerge(p)
        \/ RegisterInsert(p)
        \/ RegisterTx(p)
        \/ \E in \in SerialDispatchInputs : DispatchStart(p, in)
        \/ DispatchSteps(p)
        \/ AssignStart(p)
        \/ AssignSteps(p)
        \/ \E d \in SerialReceiveInputs : ReceiveStart(p, d)
        \/ ReceiveSteps(p)

SpecSerial == Init /\ [][NextSerial]_vars

\* the fleet under concurrent dispatch, assignment and receipt calls; the
\* ledger starts as one registration of FleetStock into the empty system
\* leaves it
FleetStock == RegisterInput("A", MaxQty, 4, 1, UserBatchNo)

InitFleet ==
    /\ products = (ProductId :> MasterDoc(FleetStock))
    /\ batches = (<<"A", UserBatchNo>> :> BatchDoc(FleetStock, 1))
    /\ txlog = <<RegisterTxn(FleetStock, UserBatchNo)>>
    /\ dispatches = <<>>
    /\ drivers = [d \in Drivers |-> "active"]
    /\ vehicles = [v \in Vehicles |-> "Available"]
    /\ now = 1
    /\ calls = [reg |-> 1, disp |-> 0]
    /\ pc = [p \in Procs |-> "idle"]
    /\ loc = [p \in Procs |-> NoLocal]
    /\ result = [p \in Procs |-> [kind |-> "none", op |-> "none"]]
    /\ trip = NoTrip

FleetDispatchInputs == {DispatchInput("A", "B", 1)}

NextFleet ==
    \E p \in Procs :
        \/ \E in \in FleetDispatchInputs : DispatchStart(p, in)
        \/ DispatchSteps(p)
        \/ AssignStart(p)
        \/ AssignSteps(p)
        \/ \E d \in ReceiveInputs : ReceiveStart(p, d)
        \/ ReceiveSteps(p)

SpecFleet == InitFleet /\ [][NextFleet]_vars

\* one handler dispatching, assigning and receiving, from the stocked ledger
ReceiptDispatchInputs ==
    {DispatchInput(f, t, q) : f \in Hubs, t \in Hubs, q \in 1..MaxQty}

NextReceipt ==
    \E p \in {SerialProc} :
        \/ \E in \in ReceiptDispatchInputs : DispatchStart(p, in)
        \/ DispatchSteps(p)
        \/ AssignStart(p)
        \/ AssignSteps(p)
        \/ \E d \in SerialReceiveInputs : ReceiveStart(p, d)
        \/ ReceiveSteps(p)

SpecReceipt == InitFleet /\ [][NextReceipt]_vars

\* one handler stocking hub A with batches of several expiry dates and
\* dispatching out of it
FifoRegInputs ==
    {RegisterInput("A", q, 4, e, b) :
        q \in 1..MaxQty, e \in {1, 2}, b \in {NoBatchNo, UserBatchNo}}

NextFifo ==
    \E p \in {SerialProc} :
        \/ \E in \in FifoRegInputs : RegisterStart(p, in)
        \/ RegisterMaster(p)
        \/ RegisterFindBatch(p)
        \/ RegisterMerge(p)
        \/ RegisterInsert(p)
        \/ RegisterTx(p)
        \/ \E in \in DispatchInputs : DispatchStart(p, in)
        \/ DispatchSteps(p)

SpecFifo == Init /\ [][NextFifo]_vars

\* one handler stocking hub A, the batch number left to the system
StockInInputs ==
    {RegisterInput("A", q, v, e, NoBatchNo) :
        q \in 1..MaxQty, v \in {3, 4}, e \in {1, 2}}

NextStockIn ==
    \E p \in {SerialProc} :
        \/ \E in \in StockInInputs : RegisterStart(p, in)
        \/ RegisterMaster(p)
        \/ RegisterFindBatch(p)
        \/ RegisterMerge(p)
        \/ RegisterInsert(p)
        \/ RegisterTx(p)

SpecStockIn == Init /\ [][NextStockIn]_vars

\* concurrent handlers stocking hub A with one expiry date, the batch number
\* left to the system
PairInputs ==
    {RegisterInput("A", q, 4, 1, NoBatchNo) : q \in 1..MaxQty}

NextStockInPair ==
    \E p \in Procs :
        \/ \E in \in PairInputs : RegisterStart(p, in)
        \/ RegisterMaster(p)
        \/ RegisterRefetch(p)
        \/ RegisterFindBatch(p)
        \/ RegisterMerge(p)
        \/ RegisterInsert(p)
        \/ RegisterTx(p)

SpecStockInPair == Init /\ [][NextStockInPair]_vars

\* the ledger and its log under concurrent stock-in, dispatch and receipt
\* calls.  The system starts as one registration of FleetStock into hub A, one
\* Dispatch of a unit to hub B and its assignment leave it: the dispatch is on
\* the road.  Hub B is stocked by RegisterIncoming, AddStock and MarkReceived
\* under the batch number of hub A.
AuditRegInputs == {RegisterInput("B", 1, 4, 1, UserBatchNo)}

AuditDispatchInputs == {DispatchInput("A", "B", 1)}

AuditReceiveInputs == {1}

OnTheRoad == DispatchInput("A", "B", 1)

InitAudit ==
    LET stocked == [Hub_ID |-> "A", Batch_No |-> UserBatchNo]
                      @@ BatchDoc(FleetStock, 1)
    IN  /\ products = (ProductId :> MasterDoc(FleetStock))
        /\ batches = (<<"A", UserBatchNo>> :>
                         Decrement(BatchDoc(FleetStock, 1), OnTheRoad.Quantity))
        /\ txlog = <<RegisterTxn(FleetStock, UserBatchNo),
                     DispatchTxn(stocked, OnTheRoad.Quantity)>>
        /\ dispatches =
              <<Assigned(DispatchDoc(OnTheRoad,
                             <<Consumption(stocked, OnTheRoad.Quantity)>>),
                         CHOOSE x \in Drivers : TRUE,
                         CHOOSE v \in Vehicles : TRUE)>>
        /\ drivers = [d \in Drivers |->
                         IF d = (CHOOSE x \in Drivers : TRUE)
                         THEN "Assigned" ELSE "active"]
        /\ vehicles = [v \in Vehicles |->
                          IF v = (CHOOSE x \in Vehicles : TRUE)
                          THEN "In-Transit" ELSE "Available"]
        /\ now = 1
        /\ calls = [reg |-> 0, disp |-> 0]
        /\ pc = [p \in Procs |-> "idle"]
        /\ loc = [p \in Procs |-> NoLocal]
        /\ result = [p \in Procs |-> [kind |-> "none", op |-> "none"]]
        /\ trip = NoTrip

NextAudit ==
    \E p \in Procs :
        \/ \E in \in AuditRegInputs : RegisterStart(p, in)
        \/ RegisterMaster(p)
        \/ RegisterFindBatch(p)
        \/ RegisterMerge(p)
        \/ RegisterInsert(p)
        \/ RegisterFallbackFind(p)
        \/ RegisterFallbackMerge(p)
        \/ RegisterTx(p)
        \/ \E in \in UpdInputs : UpdateStart(p, in)
        \/ UpdateSteps(p)
        \/ \E in \in AuditDispatchInputs : DispatchStart(p, in)
        \/ DispatchSteps(p)
        \/ \E d \in AuditReceiveInputs : ReceiveStart(p, d)
        \/ ReceiveSteps(p)

SpecAudit == InitAudit /\ [][NextAudit]_vars

\* two handlers assigning and receiving, from a yard where two dispatches of
\* one unit each wait for the one driver and the one vehicle
YardStock == RegisterInput("A", 3, 4, 1, UserBatchNo)

YardLoad == DispatchInput("A", "B", 1)

YardReceiveInputs == {1, 2}

InitYard ==
    LET fresh == BatchDoc(YardStock, 1)
        first == [Hub_ID |-> "A", Batch_No |-> UserBatchNo] @@ fresh
        second == [Hub_ID |-> "A", Batch_No |-> UserBatchNo]
                     @@ Decrement(fresh, YardLoad.Quantity)
    IN  /\ products = (ProductId :> MasterDoc(YardStock))
        /\ batches = (<<"A", UserBatchNo>> :>
                         Decrement(Decrement(fresh, YardLoad.Quantity),
                                   YardLoad.Quantity))
        /\ txlog = <<RegisterTxn(YardStock, UserBatchNo),
                     DispatchTxn(first, YardLoad.Quantity),
                     DispatchTxn(second, YardLoad.Quantity)>>
        /\ dispatches =
              <<DispatchDoc(YardLoad, <<Consumption(first, YardLoad.Quantity)>>),
                DispatchDoc(YardLoad, <<Consumption(second, YardLoad.Quantity)>>)>>
        /\ drivers = [d \in Drivers |-> "active"]
        /\ vehicles = [v \in Vehicles |-> "Available"]
        /\ now = 1
        /\ calls = [reg |-> 0, disp |-> 0]
        /\ pc = [p \in Procs |-> "idle"]
        /\ loc = [p \in Procs |-> NoLocal]
        /\ result = [p \in Procs |-> [kind |-> "none", op |-> "none"]]
        /\ trip = NoTrip

NextYard ==
    \E p \in Procs :
        \/ AssignStart(p)
        \/ AssignSteps(p)
        \/ \E d \in YardReceiveInputs : ReceiveStart(p, d)
        \/ ReceiveSteps(p)

SpecYard == InitYard /\ [][NextYard]_vars

\* one handler dispatching, assigning and receiving, from a dock where hub A
\* holds two batches, so that a dispatch of more than the first batch holds
\* leaves a consumption trace of two entries
DockFirst == RegisterInput("A", MaxQty, 4, 1, UserBatchNo)

DockSecond == RegisterInput("A", 1, 4, 2, NoBatchNo)

InitDock ==
    /\ products = (ProductId :> MasterDoc(DockFirst))
    /\ batches = (<<"A", NewBatchNo(DockFirst, 1)>> :> BatchDoc(DockFirst, 1))
                     @@ (<<"A", NewBatchNo(DockSecond, 2)>> :> BatchDoc(DockSecond, 2))
    /\ txlog = <<RegisterTxn(DockFirst, NewBatchNo(DockFirst, 1)),
                 RegisterTxn(DockSecond, NewBatchNo(DockSecond, 2))>>
    /\ dispatches = <<>>
    /\ drivers = [d \in Drivers |-> "active"]
    /\ vehicles = [v \in Vehicles |-> "Available"]
    /\ now = 2
    /\ calls = [reg |-> 0, disp |-> 0]
    /\ pc = [p \in Procs |-> "idle"]
    /\ loc = [p \in Procs |-> NoLocal]
    /\ result = [p \in Procs |-> [kind |-> "none", op |-> "none"]]
    /\ trip = NoTrip

NextDock ==
    \E p \in {SerialProc} :
        \/ \E in \in ReceiptDispatchInputs : DispatchStart(p, in)
        \/ DispatchSteps(p)
        \/ AssignStart(p)
        \/ AssignSteps(p)
        \/ \E d \in SerialReceiveInputs : ReceiveStart(p, d)
        \/ ReceiveSteps(p)

SpecDock == InitDock /\ [][NextDock]_vars

\* two handlers registering stock under one batch number, for a hub that
\* exists or one that does not
IntakeInputs ==
    {RegisterInput(h, q, 4, 1, UserBatchNo) :
        h \in {"A", UnknownHub}, q \in 1..MaxQty}

NextIntake ==
    \E p \in Procs :
        \/ \E in \in IntakeInputs : RegisterStart(p, in)
        \/ RegisterSteps(p)

SpecIntake == Init /\ [][NextIntake]_vars

\* two handlers registering and dispatching, with hubs that exist and a hub
\* that does not, as source and as destination
GateRegInputs ==
    {RegisterInput(h, MaxQty, 4, 1, UserBatchNo) : h \in {"A", UnknownHub}}

GateDispatchInputs ==
    {DispatchInput(f, t, 1) : f \in {"A", UnknownHub}, t \in {"B", UnknownHub}}

NextGate ==
    \E p \in Procs :
        \/ \E in \in GateRegInputs : RegisterStart(p, in)
        \/ RegisterSteps(p)
        \/ \E in \in GateDispatchInputs : DispatchStart(p, in)
        \/ DispatchSteps(p)

SpecGate == Init /\ [][NextGate]_vars

\* one handler registering stock at hub A and calling UpdateMaster/AddStock
\* for hub A or hub B, with or without a quantity, a batch number and a new
\* selling price
RestockRegInputs == {RegisterInput("A", MaxQty, 4, 1, UserBatchNo)}

RestockInputs ==
    {[UpdateInput(h, q, 4, e, b) EXCEPT !.Selling_Price = s] :
        h \in Hubs, q \in {NoQuantity} \cup 1..MaxQty, e \in {1, 2},
        b \in {UserBatchNo, NoBatchNo}, s \in {NoSellingPrice, 50}}

NextRestock ==
    \E p \in {SerialProc} :
        \/ \E in \in RestockRegInputs : RegisterStart(p, in)
        \/ RegisterMaster(p)
        \/ RegisterFindBatch(p)
        \/ RegisterMerge(p)
        \/ RegisterInsert(p)
        \/ RegisterTx(p)
        \/ \E in \in RestockInputs : UpdateStart(p, in)
        \/ UpdateSteps(p)

SpecRestock == Init /\ [][NextRestock]_vars

\* two handlers registering the product under two descriptions of it, and
\* dispatching it
CatalogInputs ==
    {RegisterInput("A", 1, 4, 1, UserBatchNo),
     [RegisterInput("A", 1, 4, 1, UserBatchNo) EXCEPT
         !.Product_Name = "wheat", !.Category = "flour", !.Brand = "acme",
         !.Selling_Price = 50, !.Product_Description = "new"]}

CatalogDispatchInputs == {DispatchInput("A", "B", 1)}

NextCatalog ==
    \E p \in Procs :
        \/ \E in \in CatalogInputs : RegisterStart(p, in)
        \/ RegisterSteps(p)
        \/ \E in \in CatalogDispatchInputs : DispatchStart(p, in)
        \/ DispatchSteps(p)

SpecCatalog == Init /\ [][NextCatalog]_vars

\* one handler stocking hub A with an expiry day in the past, on the last day
\* a warning is due for on the first tick, or a day later, or (AddStock) with
\* no expiry date at all
ShelfDates == {-1, WarnDays, WarnDays + 1}

ShelfRegInputs == {RegisterInput("A", 1, 4, e, NoBatchNo) : e \in ShelfDates}

ShelfAddInputs ==
    {UpdateInput("A", 1, 4, e, NoBatchNo) : e \in ShelfDates \cup {MissingDate}}

NextShelf ==
    \E p \in {SerialProc} :
        \/ \E in \in ShelfRegInputs : RegisterStart(p, in)
        \/ RegisterMaster(p)
        \/ RegisterFindBatch(p)
        \/ RegisterMerge(p)
        \/ RegisterInsert(p)
        \/ RegisterTx(p)
        \/ \E in \in ShelfAddInputs : UpdateStart(p, in)
        \/ UpdateFindBatch(p)
        \/ UpdateMerge(p)
        \/ UpdateInsert(p)
        \/ UpdateTx(p)
        \/ UpdateReturn(p)

SpecShelf == Init /\ [][NextShelf]_vars

\* two handlers stocking hub A, where one batch exists already: every call,
\* RegisterIncoming or AddStock, naming the batch or only its expiry date,
\* merges into that batch
MergeRegInputs ==
    {RegisterInput("A", q, 4, 1, b) :
        q \in 1..MaxQty, b \in {UserBatchNo, NoBatchNo}}

MergeAddInputs ==
    {UpdateInput("A", q, 4, 1, b) :
        q \in 1..MaxQty, b \in {UserBatchNo, NoBatchNo}}

InitMergePair ==
    /\ products = (ProductId :> MasterDoc(FleetStock))
    /\ batches = (<<"A", UserBatchNo>> :> BatchDoc(FleetStock, 1))
    /\ txlog = <<RegisterTxn(FleetStock, UserBatchNo)>>
    /\ dispatches = <<>>
    /\ drivers = [d \in Drivers |-> "active"]
    /\ vehicles = [v \in Vehicles |-> "Available"]
    /\ now = 1
    /\ calls = [reg |-> 0, disp |-> 0]
    /\ pc = [p \in Procs |-> "idle"]
    /\ loc = [p \in Procs |-> NoLocal]
    /\ result = [p \in Procs |-> [kind |-> "none", op |-> "none"]]
    /\ trip = NoTrip

NextMergePair ==
    \E p \in Procs :
        \/ \E in \in MergeRegInputs : RegisterStart(p, in)
        \/ RegisterMaster(p)
        \/ RegisterFindBatch(p)
        \/ RegisterMerge(p)
        \/ RegisterTx(p)
        \/ \E in \in MergeAddInputs : UpdateStart(p, in)
        \/ UpdateFindBatch(p)
        \/ UpdateMerge(p)
        \/ UpdateTx(p)
        \/ UpdateReturn(p)

SpecMergePair == InitMergePair /\ [][NextMergePair]_vars

\* one handler dispatching, assigning and receiving from the dock, where a
\* Dispatch call may stop at any of its storage calls
NextOutage ==
    \E p \in {SerialProc} :
        \/ \E in \in ReceiptDispatchInputs : DispatchStart(p, in)
        \/ DispatchSteps(p)
        \/ DispatchStop(p)
        \/ AssignStart(p)
        \/ AssignSteps(p)
        \/ \E d \in SerialReceiveInputs : ReceiveStart(p, d)
        \/ ReceiveSteps(p)

SpecOutage == InitDock /\ [][NextOutage]_vars

\* the yard under fair scheduling: a call that is under way makes its next
\* storage call (the event loop resumes every coroutine whose await has
\* completed), assignResources is called again and again, and MarkReceived is
\* called for a dispatch that is In-Transit.  The server admits a request at
\* any time; here a call needs a handler that is free, so the fairness of
\* the calls is strong: a call that can be made again and again is made.
YardFairness ==
    /\ \A p \in Procs : WF_vars(AssignSteps(p)) /\ WF_vars(ReceiveSteps(p))
    /\ SF_vars(\E p \in Procs : AssignStart(p))
    /\ \A d \in YardReceiveInputs :
          SF_vars(\E p \in Procs : /\ dispatches[d].Status = "In-Transit"
                                   /\ ReceiveStart(p, d))

SpecYardLive == InitYard /\ [][NextYard]_vars /\ YardFairness

----------------------------------------------------------------------------
(* Measures used by the properties *)

\* the quantity a consumption trace accounts for
RECURSIVE TraceQty(_)
TraceQty(trace) ==
    IF trace = <<>> THEN 0 ELSE Head(trace).Qty + TraceQty(Tail(trace))

\* the IN transactions of the log that carry dispatch d as reference
ReceiptTxns(d) ==
    {i \in DOMAIN txlog : txlog[i].type = "IN" /\ txlog[i].reference = d}

RECURSIVE TxnQty(_)
TxnQty(S) ==
    IF S = {} THEN 0
    ELSE LET i == CHOOSE x \in S : TRUE
         IN  txlog[i].Quantity + TxnQty(S \ {i})

\* everything ever stocked into hub h: the IN transactions of the hub, and the
\* stock-in calls that have written their batch and not yet their transaction
RECURSIVE UnloggedStockIn(_, _)
UnloggedStockIn(S, h) ==
    IF S = {} THEN 0
    ELSE LET p == CHOOSE x \in S : TRUE
         IN  (IF pc[p] = "reg_tx" /\ loc[p].in.Hub_ID = h
              THEN loc[p].in.Quantity ELSE 0) + UnloggedStockIn(S \ {p}, h)

Stocked(h) ==
    TxnQty({i \in DOMAIN txlog : txlog[i].type = "IN" /\ txlog[i].Hub_ID = h})
    + UnloggedStockIn(DOMAIN pc, h)

\* everything the dispatch records say was taken out of hub h
RECURSIVE ShippedBy(_)
ShippedBy(S) ==
    IF S = {} THEN 0
    ELSE LET d == CHOOSE x \in S : TRUE
         IN  TraceQty(dispatches[d].Batch_Consumption) + ShippedBy(S \ {d})

Shipped(h) == ShippedBy({d \in DOMAIN dispatches : dispatches[d].From_Hub_ID = h})

----------------------------------------------------------------------------
(* Properties *)

\* C1: in every reachable state every batch has a quantity >= 0, whatever the
\* interleaving of the calls; a Dispatch decrement never takes a batch below 0.
C1_QuantityNeverNegative ==
    \A k \in DOMAIN batches : batches[k].Quantity >= 0

\* C2: no two distinct dispatches that are both In-Transit reference the same
\* driver, and no two reference the same vehicle.
C2_ResourcesHeldOnce ==
    \A d1, d2 \in DOMAIN dispatches :
        (/\ d1 # d2
         /\ dispatches[d1].Status = "In-Transit"
         /\ dispatches[d2].Status = "In-Transit")
        => /\ dispatches[d1].Driver_Assigned # dispatches[d2].Driver_Assigned
           /\ dispatches[d1].Vehicle_Assigned # dispatches[d2].Vehicle_Assigned

\* C3: whatever the interleaving of MarkReceived calls on one dispatch, the
\* destination is credited with its consumption trace at most once: the IN
\* transactions that reference the dispatch are no more than, and carry no more
\* quantity than, one dispatch's worth.
C3_CreditedAtMostOnce ==
    \A d \in DOMAIN dispatches :
        /\ Cardinality(ReceiptTxns(d)) <= Len(dispatches[d].Batch_Consumption)
        /\ TxnQty(ReceiptTxns(d)) <= TraceQty(dispatches[d].Batch_Consumption)

\* C4: the consumption traces of the dispatch records created from a hub never
\* add up to more than was ever stocked into that hub.
C4_NeverShipsMoreThanStocked ==
    \A h \in Hubs : Shipped(h) <= Stocked(h)

\* C5: the Quantity of every persisted Dispatch record equals the sum of Qty
\* over its Batch_Consumption (a call that consumed less than requested
\* persists no record).
C5_RecordMatchesTrace ==
    \A d \in DOMAIN dispatches :
        dispatches[d].Quantity = TraceQty(dispatches[d].Batch_Consumption)

\* C6: a dispatch only moves forward In-Progress -> In-Transit -> Completed; once
\* Completed it stays Completed and its driver and vehicle fields are not
\* rewritten.
C6_StatusOnlyForward ==
    [][\A d \in DOMAIN dispatches :
          /\ dispatches[d].Status = "Completed"
             => /\ dispatches'[d].Status = "Completed"
                /\ dispatches'[d].Driver_Assigned = dispatches[d].Driver_Assigned
                /\ dispatches'[d].Vehicle_Assigned = dispatches[d].Vehicle_Assigned
          /\ dispatches[d].Status = "In-Transit"
             => dispatches'[d].Status \in {"In-Transit", "Completed"}]_vars

\* C7: after a successful Dispatch, the assignment of its dispatch and a
\* successful MarkReceived, run without interference, the system-wide active
\* stock equals the system-wide active stock before the Dispatch.
C7_RoundTripKeepsTotal ==
    trip.phase = "received" => SystemTotal = trip.before

\* C8: a destination batch that MarkReceived creates from a consumption entry
\* {batch_no, qty, unit_cost} has that batch number and the unit price
\* unit_cost (the Unit_Cost a later Dispatch out of that batch reports).
C8_CostBasisSurvives ==
    [][\A p \in Procs :
          (pc[p] = "rcv_upsert" /\ pc'[p] # "rcv_upsert")
          => LET entry == Head(loc[p].todo)
                 k == <<loc[p].dispatch.To_Hub_ID, entry.Batch_No>>
             IN  k \notin DOMAIN batches
                 => /\ k \in DOMAIN batches'
                    /\ GetUnitPrice(batches'[k]) = entry.Unit_Cost]_vars

\* handler p, idle, is called with MarkReceived(d) in this step
ReceiveCalled(p, d) ==
    /\ pc[p] = "idle"
    /\ \/ /\ pc'[p] \in {"rcv_tx", "rcv_driver"}
          /\ loc'[p].dispatch_id = d
       \/ /\ pc'[p] = "idle"
          /\ result'[p] # result[p]
          /\ result'[p].op = "receive"
          /\ result'[p].dispatch_id = d

\* C9: a MarkReceived call on an In-Transit dispatch passes the status check and
\* ends well with the dispatch Completed; a MarkReceived call on that dispatch
\* once it is Completed fails with InvalidState and leaves the batches, the
\* transaction log, the driver, the vehicle and the dispatch as they were.
C9_SecondReceiveRejected ==
    [][\A p \in Procs : \A d \in DOMAIN dispatches :
          /\ (ReceiveCalled(p, d) /\ dispatches[d].Status = "In-Transit")
             => pc'[p] # "idle"
          /\ (pc[p] = "rcv_dispatch" /\ pc'[p] = "idle" /\ loc[p].dispatch_id = d)
             => /\ result'[p].kind = "ok"
                /\ dispatches'[d].Status = "Completed"
          /\ (ReceiveCalled(p, d) /\ dispatches[d].Status = "Completed")
             => /\ pc'[p] = "idle"
                /\ result'[p].kind = "InvalidState"
                /\ UNCHANGED dbvars]_vars

\* C9, the case: the last call was a MarkReceived of a Completed dispatch, it
\* was rejected, and the log holds one receipt of the dispatch
C9_Witness ==
    \E d \in DOMAIN dispatches :
        /\ pc[SerialProc] = "idle"
        /\ result[SerialProc].kind = "InvalidState"
        /\ result[SerialProc].dispatch_id = d
        /\ dispatches[d].Status = "Completed"
        /\ dispatches[d].Batch_Consumption # <<>>
        /\ Cardinality(ReceiptTxns(d)) = Len(dispatches[d].Batch_Consumption)

\* C10: a Dispatch call that asks for more than the active stock of the source
\* hub does not go on to consume; it fails with InsufficientStock, reporting
\* the requested and the available quantity, and changes no batch, no
\* transaction and no dispatch record.
C10_InsufficientStockRejected ==
    [][\A p \in Procs :
          pc[p] = "idle"
          => /\ pc'[p] = "disp_cursor"
                => loc'[p].in.Quantity <= TotalAvailable(loc'[p].in.From_Hub_ID)
             /\ (/\ pc'[p] = "idle"
                 /\ result'[p] # result[p]
                 /\ result'[p].kind = "InsufficientStock")
                => /\ result'[p].requested > result'[p].available
                   /\ result'[p].available = TotalAvailable(result'[p].hub)
                   /\ UNCHANGED <<batches, txlog, dispatches>>]_vars

\* C10, the case: a Dispatch was refused for lack of stock while the source hub
\* did hold some
C10_Witness ==
    \E p \in Procs :
        /\ result[p].kind = "InsufficientStock"
        /\ result[p].available > 0
        /\ result[p].requested > result[p].available

\* batch k1 comes strictly before batch k2 in (Expiry_Date, created_at) order
StrictlyBefore(k1, k2) ==
    \/ batches[k1].Expiry_Date < batches[k2].Expiry_Date
    \/ /\ batches[k1].Expiry_Date = batches[k2].Expiry_Date
       /\ batches[k1].created_at < batches[k2].created_at

\* C11: in a Dispatch run without interference, every decrement takes
\* min(batch quantity, what is still to be dispatched) from a batch that no
\* active batch with stock precedes in (Expiry_Date, created_at) order; a batch
\* the loop moves on from is drained; and the consumption trace of the record
\* lists its batches in that order.
C11_FifoConsumption ==
    [][\A p \in Procs :
          /\ (pc[p] = "disp_dec" /\ pc'[p] = "disp_reread")
             => LET batch == Head(loc[p].cursor)
                    k == <<batch.Hub_ID, batch.Batch_No>>
                    remaining == loc[p].in.Quantity
                                    - TraceQty(loc[p].batch_consumption)
                    take == batches[k].Quantity - batches'[k].Quantity
                IN  /\ k \in CursorKeys(loc[p].in.From_Hub_ID)
                    /\ take = IF batches[k].Quantity <= remaining
                              THEN batches[k].Quantity ELSE remaining
                    /\ \A j \in CursorKeys(loc[p].in.From_Hub_ID) :
                          ~StrictlyBefore(j, k)
          /\ (pc[p] = "disp_tx" /\ pc'[p] = "disp_dec")
             => LET batch == Head(loc[p].cursor)
                IN  batches[<<batch.Hub_ID, batch.Batch_No>>].Quantity = 0
          /\ (pc[p] = "disp_insert" /\ pc'[p] = "disp_remaining")
             => LET doc == dispatches'[Len(dispatches')]
                    trace == doc.Batch_Consumption
                IN  \A i \in 1..(Len(trace) - 1) :
                       /\ trace[i].Batch_No # trace[i + 1].Batch_No
                       /\ SortsBefore(<<doc.From_Hub_ID, trace[i].Batch_No>>,
                                      <<doc.From_Hub_ID, trace[i + 1].Batch_No>>)]_vars

\* C11, the case: a dispatch consumed two batches, the one stocked later first
\* because it expires sooner
C11_Witness ==
    \E d \in DOMAIN dispatches :
        LET trace == dispatches[d].Batch_Consumption
            h == dispatches[d].From_Hub_ID
        IN  /\ Len(trace) = 2
            /\ batches[<<h, trace[1].Batch_No>>].Expiry_Date
                  < batches[<<h, trace[2].Batch_No>>].Expiry_Date
            /\ batches[<<h, trace[1].Batch_No>>].created_at
                  > batches[<<h, trace[2].Batch_No>>].created_at

StockInTxns(k) ==
    {i \in DOMAIN txlog : /\ txlog[i].type = "IN"
                          /\ txlog[i].Hub_ID = k[1]
                          /\ txlog[i].Batch_No = k[2]}

RECURSIVE TxnValue(_)
TxnValue(S) ==
    IF S = {} THEN RatZero
    ELSE LET i == CHOOSE x \in S : TRUE
         IN  RatAdd(txlog[i].Total_Value, TxnValue(S \ {i}))

\* between calls: one batch per (hub, expiry), holding the sum of what was
\* stocked into it at the quantity-weighted average price
OneBatchPerExpiry ==
    /\ \A k1, k2 \in DOMAIN batches :
          (k1[1] = k2[1] /\ batches[k1].Expiry_Date = batches[k2].Expiry_Date)
          => k1 = k2
    /\ \A k \in DOMAIN batches :
          /\ StockInTxns(k) # {}
          /\ batches[k].Quantity = TxnQty(StockInTxns(k))
          /\ batches[k].Purchase_Unit_Price
                = RatDivInt(TxnValue(StockInTxns(k)), TxnQty(StockInTxns(k)))

\* C13: after every call of a sequence of RegisterIncoming calls that name no
\* batch, the stock of the call is in the batch of its (hub, expiry), that
\* batch is the only one of its (hub, expiry), its quantity is the sum of the
\* quantities stocked into it and its unit price is their total value over
\* their total quantity (so the order of the calls does not matter).
C13_MergeByExpiry ==
    [][\A p \in Procs :
          (pc[p] = "reg_tx" /\ pc'[p] = "idle")
          => /\ result'[p].kind = "ok"
             /\ LET k == <<loc[p].in.Hub_ID, result'[p].Batch_No>>
                IN  /\ k \in DOMAIN batches'
                    /\ batches'[k].Expiry_Date = loc[p].in.Expiry_Date
                    /\ Len(txlog') = Len(txlog) + 1
                    /\ txlog'[Len(txlog')].Batch_No = k[2]
                    /\ txlog'[Len(txlog')].Quantity = loc[p].in.Quantity
             /\ OneBatchPerExpiry']_vars

\* C13, the case: two calls of different quantity and unit cost were merged
\* into one batch
C13_Witness ==
    \E k \in DOMAIN batches :
        \E i, j \in StockInTxns(k) :
            /\ pc[SerialProc] = "idle"
            /\ txlog[i].Quantity # txlog[j].Quantity
            /\ txlog[i].Unit_Price # txlog[j].Unit_Price
            /\ batches[k].Quantity = txlog[i].Quantity + txlog[j].Quantity

\* C14: once concurrent RegisterIncoming calls for a new (hub, expiry) that name
\* no batch have all ended, one batch exists for that (hub, expiry) and its
\* quantity is the sum of the quantities of the calls.
C14_OneBatchAfterConcurrentStockIn ==
    (\A p \in Procs : pc[p] = "idle")
    => /\ \A k1, k2 \in DOMAIN batches :
             (/\ k1[1] = k2[1]
              /\ batches[k1].Expiry_Date = batches[k2].Expiry_Date)
             => k1 = k2
       /\ \A k \in DOMAIN batches :
             batches[k].Quantity = TxnQty(StockInTxns(k))

\* C15: whenever an assignResources call marks a driver or a vehicle busy, that
\* driver or vehicle is idle at the moment of the write; and the driver and
\* vehicle a call writes onto a dispatch are not already held by another
\* In-Transit dispatch.
C15_AllocatesOnlyIdle ==
    [][\A p \in Procs :
          /\ (pc[p] = "asg_set_driver" /\ pc'[p] = "asg_set_vehicle")
             => drivers[loc[p].driver] = "active"
          /\ (pc[p] = "asg_set_vehicle" /\ pc'[p] = "asg_set_dispatch")
             => vehicles[loc[p].vehicle] = "Available"
          /\ (pc[p] = "asg_set_dispatch" /\ pc'[p] = "idle")
             => \A d \in DOMAIN dispatches :
                   (d # loc[p].dispatch /\ dispatches[d].Status = "In-Transit")
                   => /\ dispatches[d].Driver_Assigned # loc[p].driver
                      /\ dispatches[d].Vehicle_Assigned # loc[p].vehicle]_vars

\* C16: a batch whose status is depleted never becomes active again.
C16_DepletedStaysDepleted ==
    [][\A k \in DOMAIN batches :
          batches[k].status = "depleted" => batches'[k].status = "depleted"]_vars

\* C17: whenever no operation is in progress, a batch is depleted exactly when
\* its quantity is 0.
C17_DepletedIffEmpty ==
    (\A p \in Procs : pc[p] = "idle")
    => \A k \in DOMAIN batches :
          batches[k].status = "depleted" <=> batches[k].Quantity = 0

\* the OUT transactions of the log for batch k
StockOutTxns(k) ==
    {i \in DOMAIN txlog : /\ txlog[i].type = "OUT"
                          /\ txlog[i].Hub_ID = k[1]
                          /\ txlog[i].Batch_No = k[2]}

\* C18: whenever no operation is in progress, the quantity of every batch is
\* the sum of the quantities of its IN transactions minus the sum of the
\* quantities of its OUT transactions, and every transaction is of a batch
\* that exists.
C18_LedgerFromLog ==
    (\A p \in Procs : pc[p] = "idle")
    => /\ \A k \in DOMAIN batches :
             batches[k].Quantity
                = TxnQty(StockInTxns(k)) - TxnQty(StockOutTxns(k))
       /\ \A i \in DOMAIN txlog :
             <<txlog[i].Hub_ID, txlog[i].Batch_No>> \in DOMAIN batches

\* no operation in progress, hub B credited by a receipt and by an AddStock
\* that merged into the batch, hub A debited by a second dispatch
C18_Witness ==
    /\ \A p \in Procs : pc[p] = "idle"
    /\ \E p \in Procs : /\ result[p].kind = "ok"
                        /\ result[p].op = "update"
                        /\ result[p].Merged
    /\ \E k \in DOMAIN batches :
          /\ k[1] = "B"
          /\ batches[k].Quantity >= 2
          /\ \E i \in StockInTxns(k) : txlog[i].reference # NoReference
          /\ \E i \in StockInTxns(k) : txlog[i].reference = NoReference
    /\ \E k \in DOMAIN batches :
          /\ k[1] = "A"
          /\ Cardinality(StockOutTxns(k)) >= 2

\* C19: a MarkReceived call with a dispatch_id that no dispatch has fails
\* with DispatchNotFound, a MarkReceived call on a dispatch that is In-Progress
\* fails with InvalidState, and in both cases the batches, the transaction
\* log, the drivers, the vehicles and the dispatches stay as they were.
C19_UnknownOrPendingRejected ==
    [][\A p \in Procs : \A d \in 0..MaxDispatches :
          ReceiveCalled(p, d)
          => IF d \notin DOMAIN dispatches
             THEN /\ pc'[p] = "idle"
                  /\ result'[p].kind = "DispatchNotFound"
                  /\ UNCHANGED dbvars
             ELSE dispatches[d].Status = "In-Progress"
                  => /\ pc'[p] = "idle"
                     /\ result'[p].kind = "InvalidState"
                     /\ UNCHANGED dbvars]_vars

\* C19, the case: the last call was a MarkReceived of a dispatch that is still
\* In-Progress and unassigned, it was rejected, and the log holds no receipt
\* of that dispatch
C19_Witness ==
    \E d \in DOMAIN dispatches :
        /\ pc[SerialProc] = "idle"
        /\ result[SerialProc].kind = "InvalidState"
        /\ result[SerialProc].op = "receive"
        /\ result[SerialProc].dispatch_id = d
        /\ dispatches[d].Status = "In-Progress"
        /\ dispatches[d].Driver_Assigned = Unassigned
        /\ dispatches[d].Vehicle_Assigned = Unassigned
        /\ ReceiptTxns(d) = {}

\* C20: an assignResources call only reads until it has found a pending
\* dispatch, an idle driver and an idle vehicle; when the driver lookup finds
\* no idle driver the call ends with NoDriver, when the vehicle lookup finds
\* no idle vehicle it ends with NoVehicle, and no step of such a call changes
\* a dispatch, a driver or a vehicle (nor a batch or a transaction).
C20_AssignShortChangesNothing ==
    [][\A p \in Procs :
          /\ (pc[p] = "idle" /\ pc'[p] = "asg_driver") => UNCHANGED dbvars
          /\ (pc[p] = "asg_driver" /\ pc'[p] # "asg_driver")
             => /\ UNCHANGED dbvars
                /\ IF IdleDrivers = {}
                   THEN pc'[p] = "idle" /\ result'[p].kind = "NoDriver"
                   ELSE pc'[p] = "asg_vehicle"
          /\ (pc[p] = "asg_vehicle" /\ pc'[p] # "asg_vehicle")
             => /\ UNCHANGED dbvars
                /\ IF IdleVehicles = {}
                   THEN pc'[p] = "idle" /\ result'[p].kind = "NoVehicle"
                   ELSE pc'[p] = "asg_set_driver"]_vars

\* C20, the case: a call ended with NoVehicle while a driver is idle, no
\* vehicle is, and a dispatch waits In-Progress with its unassigned sentinels
C20_Witness ==
    \E p \in Procs :
        /\ pc[p] = "idle"
        /\ result[p].kind = "NoVehicle"
        /\ IdleDrivers # {}
        /\ IdleVehicles = {}
        /\ \E d \in PendingDispatches :
              /\ dispatches[d].Driver_Assigned = Unassigned
              /\ dispatches[d].Vehicle_Assigned = Unassigned

\* C21: when a MarkReceived call that ran alone on an In-Transit dispatch ends
\* well, the driver and the vehicle the dispatch names are idle, so that a
\* later assignResources can select them, and the dispatch is Completed and
\* carries an arrival time.
C21_ReceiptReleasesResources ==
    [][\A p \in Procs :
          (pc[p] = "rcv_dispatch" /\ pc'[p] = "idle")
          => LET d == loc[p].dispatch_id
                 doc == dispatches'[d]
             IN  /\ result'[p].kind = "ok"
                 /\ doc.Status = "Completed"
                 /\ doc.Arrival_Time = TRUE
                 /\ doc.Driver_Assigned \in Drivers
                 /\ doc.Vehicle_Assigned \in Vehicles
                 /\ drivers'[doc.Driver_Assigned] = "active"
                 /\ vehicles'[doc.Vehicle_Assigned] = "Available"
                 /\ doc.Driver_Assigned \in IdleDrivers'
                 /\ doc.Vehicle_Assigned \in IdleVehicles']_vars

\* C21, the case: the last call was a MarkReceived that ended well; its
\* dispatch is Completed and its driver and vehicle are idle
C21_Witness ==
    /\ pc[SerialProc] = "idle"
    /\ result[SerialProc].kind = "ok"
    /\ result[SerialProc].op = "receive"
    /\ LET doc == dispatches[result[SerialProc].dispatch_id]
       IN  /\ doc.Status = "Completed"
           /\ doc.Arrival_Time = TRUE
           /\ doc.Batch_Consumption # <<>>
           /\ drivers[doc.Driver_Assigned] = "active"
           /\ vehicles[doc.Vehicle_Assigned] = "Available"

\* C22: in every state a dispatch that is In-Progress carries the unassigned
\* sentinel as its driver and as its vehicle, and a dispatch that is In-Transit
\* or Completed names a driver and a vehicle that exist (so it carries no
\* sentinel); and the step that persists a dispatch appends it In-Progress
\* with both sentinels.
C22_SentinelsIffPending ==
    /\ [](\A d \in DOMAIN dispatches :
             LET doc == dispatches[d]
             IN  /\ doc.Status \in {"In-Progress", "In-Transit", "Completed"}
                 /\ doc.Status = "In-Progress"
                    <=> (/\ doc.Driver_Assigned = Unassigned
                         /\ doc.Vehicle_Assigned = Unassigned)
                 /\ doc.Status # "In-Progress"
                    => /\ doc.Driver_Assigned \in Drivers
                       /\ doc.Vehicle_Assigned \in Vehicles)
    /\ [][\A p \in Procs :
            (pc[p] = "disp_insert" /\ pc'[p] # "disp_insert")
            => /\ Len(dispatches') = Len(dispatches) + 1
               /\ SubSeq(dispatches', 1, Len(dispatches)) = dispatches
               /\ LET doc == dispatches'[Len(dispatches')]
                  IN  /\ doc.Status = "In-Progress"
                      /\ doc.Driver_Assigned = Unassigned
                      /\ doc.Vehicle_Assigned = Unassigned]_vars

\* C22, the case: one dispatch is Completed, another waits In-Progress
C22_Witness ==
    /\ \E d \in DOMAIN dispatches : dispatches[d].Status = "Completed"
    /\ \E d \in DOMAIN dispatches : dispatches[d].Status = "In-Progress"
    /\ \A p \in Procs : pc[p] = "idle"

\* the quantity a hub holds under a batch number, 0 when it holds none
QuantityAt(ledger, k) == IF k \in DOMAIN ledger THEN ledger[k].Quantity ELSE 0

\* C23: a MarkReceived call that ends well has, for each entry of the
\* consumption trace, appended one IN transaction of the destination hub and
\* the entry's batch number, with the entry's quantity and the dispatch id as
\* reference, and then added exactly that quantity to the destination batch
\* of that number, creating it active when the hub had none; these are its
\* only changes to the log and to the batches, and when it ends the log holds
\* exactly one such transaction per entry.
C23_ReceiptCreditsTrace ==
    [][\A p \in Procs :
          /\ (pc[p] = "rcv_tx" /\ pc'[p] # "rcv_tx")
             => LET entry == Head(loc[p].todo)
                IN  /\ Len(txlog') = Len(txlog) + 1
                    /\ SubSeq(txlog', 1, Len(txlog)) = txlog
                    /\ txlog'[Len(txlog')].type = "IN"
                    /\ txlog'[Len(txlog')].Hub_ID = loc[p].dispatch.To_Hub_ID
                    /\ txlog'[Len(txlog')].Batch_No = entry.Batch_No
                    /\ txlog'[Len(txlog')].Quantity = entry.Qty
                    /\ txlog'[Len(txlog')].reference = loc[p].dispatch_id
                    /\ UNCHANGED batches
                    /\ pc'[p] = "rcv_upsert"
                    /\ loc'[p].todo = loc[p].todo
          /\ (pc[p] = "rcv_upsert" /\ pc'[p] # "rcv_upsert")
             => LET entry == Head(loc[p].todo)
                    k == <<loc[p].dispatch.To_Hub_ID, entry.Batch_No>>
                IN  /\ DOMAIN batches' = DOMAIN batches \cup {k}
                    /\ batches'[k].Quantity = QuantityAt(batches, k) + entry.Qty
                    /\ k \notin DOMAIN batches => batches'[k].status = "active"
                    /\ \A k2 \in DOMAIN batches : k2 # k => batches'[k2] = batches[k2]
                    /\ UNCHANGED txlog
                    /\ loc'[p].todo = Tail(loc[p].todo)
          /\ (pc[p] \in {"rcv_driver", "rcv_vehicle", "rcv_dispatch"}
                /\ pc'[p] # pc[p])
             => UNCHANGED <<batches, txlog>>
          /\ (pc[p] = "idle" /\ pc'[p] \in {"rcv_tx", "rcv_driver"})
             => /\ UNCHANGED <<batches, txlog>>
                /\ loc'[p].todo = dispatches[loc'[p].dispatch_id].Batch_Consumption
          /\ (pc[p] = "rcv_dispatch" /\ pc'[p] = "idle")
             => LET d == loc[p].dispatch_id
                    trace == loc[p].dispatch.Batch_Consumption
                IN  /\ loc[p].todo = <<>>
                    /\ Cardinality(ReceiptTxns(d)) = Len(trace)
                    /\ \A i \in DOMAIN trace :
                          Cardinality({j \in ReceiptTxns(d) :
                              /\ txlog[j].Hub_ID = loc[p].dispatch.To_Hub_ID
                              /\ txlog[j].Batch_No = trace[i].Batch_No
                              /\ txlog[j].Quantity = trace[i].Qty}) = 1]_vars

\* C23, the case: a MarkReceived of a dispatch with a trace of two entries
\* ended well; one of the destination batches existed before and holds more
\* than the entry gave it, and the log holds one receipt per entry
C23_Witness ==
    /\ pc[SerialProc] = "idle"
    /\ result[SerialProc].kind = "ok"
    /\ result[SerialProc].op = "receive"
    /\ LET d == result[SerialProc].dispatch_id
           doc == dispatches[d]
       IN  /\ Len(doc.Batch_Consumption) = 2
           /\ Cardinality(ReceiptTxns(d)) = 2
           /\ \E i \in DOMAIN doc.Batch_Consumption :
                 batches[<<doc.To_Hub_ID, doc.Batch_Consumption[i].Batch_No>>].Quantity
                    > doc.Batch_Consumption[i].Qty

\* transaction t is the OUT transaction of trace entry e taken from hub h
OutOf(t, e, h) ==
    /\ t.type = "OUT"
    /\ t.Hub_ID = h
    /\ t.Batch_No = e.Batch_No
    /\ t.Quantity = e.Qty
    /\ t.Unit_Price = e.Unit_Cost

\* C24: a Dispatch call decrements the batch its cursor stands on by exactly
\* the quantity it takes and changes no other batch; it then appends one OUT
\* transaction and one trace entry that agree in batch number, quantity (the
\* quantity taken) and unit cost; no other step of the call appends a
\* transaction or a trace entry, so that when the call persists its record the
\* log ends with exactly the OUT transactions of its trace, in order.
C24_OneOutPerTraceEntry ==
    [][\A p \in Procs :
          /\ (pc[p] = "disp_cursor" /\ pc'[p] # "disp_cursor")
             => /\ loc'[p].batch_consumption = <<>>
                /\ UNCHANGED <<batches, txlog>>
          /\ (pc[p] = "disp_dec" /\ pc'[p] # "disp_dec")
             => LET batch == Head(loc[p].cursor)
                    k == <<batch.Hub_ID, batch.Batch_No>>
                    take == Take(batch.Quantity, loc[p].remaining)
                IN  /\ batches'[k].Quantity = batches[k].Quantity - take
                    /\ DOMAIN batches' = DOMAIN batches
                    /\ \A k2 \in DOMAIN batches : k2 # k => batches'[k2] = batches[k2]
                    /\ UNCHANGED txlog
                    /\ loc'[p] = loc[p]
          /\ (pc[p] \in {"disp_reread", "disp_deplete"} /\ pc'[p] # pc[p])
             => /\ UNCHANGED txlog
                /\ loc'[p] = loc[p]
                /\ \A k \in DOMAIN batches :
                      batches'[k].Quantity = batches[k].Quantity
          /\ (pc[p] = "disp_tx" /\ pc'[p] # "disp_tx")
             => LET batch == Head(loc[p].cursor)
                    take == Take(batch.Quantity, loc[p].remaining)
                    trace == loc'[p].batch_consumption
                IN  /\ Len(txlog') = Len(txlog) + 1
                    /\ SubSeq(txlog', 1, Len(txlog)) = txlog
                    /\ Len(trace) = Len(loc[p].batch_consumption) + 1
                    /\ SubSeq(trace, 1, Len(trace) - 1) = loc[p].batch_consumption
                    /\ trace[Len(trace)].Batch_No = batch.Batch_No
                    /\ trace[Len(trace)].Qty = take
                    /\ OutOf(txlog'[Len(txlog')], trace[Len(trace)], batch.Hub_ID)
                    /\ UNCHANGED batches
          /\ (pc[p] \in {"disp_insert", "disp_remaining"} /\ pc'[p] # pc[p])
             => UNCHANGED <<batches, txlog>>
          /\ (pc[p] = "disp_insert" /\ pc'[p] # "disp_insert")
             => LET trace == loc[p].batch_consumption
                    n == Len(trace)
                IN  /\ Len(txlog) >= n
                    /\ \A i \in 1..n :
                          OutOf(txlog[Len(txlog) - n + i], trace[i],
                                loc[p].in.From_Hub_ID)
                    /\ dispatches'[Len(dispatches')].Batch_Consumption = trace]_vars

\* C24, the case: a Dispatch that took from two batches ended well, and the
\* log ends with the two OUT transactions of its trace
C24_Witness ==
    /\ pc[SerialProc] = "idle"
    /\ result[SerialProc].kind = "ok"
    /\ result[SerialProc].op = "dispatch"
    /\ LET trace == result[SerialProc].Batch_Consumption
           h == dispatches[result[SerialProc].dispatch_id].From_Hub_ID
       IN  /\ Len(trace) = 2
           /\ trace[1].Batch_No # trace[2].Batch_No
           /\ Len(txlog) >= 2
           /\ OutOf(txlog[Len(txlog) - 1], trace[1], h)
           /\ OutOf(txlog[Len(txlog)], trace[2], h)
           /\ \E k \in DOMAIN batches : k[1] = h /\ batches[k].Quantity > 0

\* the steps of a RegisterIncoming call before its transaction is logged
RegisterLabels ==
    {"reg_master", "reg_refetch", "reg_find", "reg_merge", "reg_insert",
     "reg_fb_find", "reg_fb_merge"}

\* C25: a RegisterIncoming call ends well only by the step that appends its IN
\* transaction; that step appends exactly one transaction, of the call's hub
\* and quantity and of the batch number the call answers with, which is the
\* number of the batch the call added its quantity to, whether it merged,
\* created the batch or merged on the duplicate-key fallback path; no other
\* step of a call, and so no call that fails, appends a transaction.
C25_OneInPerRegistration ==
    [][\A p \in Procs :
          /\ (pc[p] = "idle" /\ pc'[p] \in RegisterLabels) => UNCHANGED txlog
          /\ (pc[p] \in RegisterLabels /\ pc'[p] # pc[p])
             => /\ UNCHANGED txlog
                /\ pc'[p] = "idle" => result'[p].kind # "ok"
          /\ (pc[p] = "idle" /\ pc'[p] = "idle" /\ result'[p] # result[p]
                /\ result'[p].op = "register")
             => /\ result'[p].kind # "ok"
                /\ UNCHANGED <<batches, txlog>>
          /\ (pc[p] \in {"reg_merge", "reg_insert", "reg_fb_merge"}
                /\ pc'[p] = "reg_tx")
             => LET in == loc[p].in
                    k == <<in.Hub_ID, loc'[p].batch_no_used>>
                IN  /\ DOMAIN batches' = DOMAIN batches \cup {k}
                    /\ batches'[k].Quantity = QuantityAt(batches, k) + in.Quantity
                    /\ \A k2 \in DOMAIN batches : k2 # k => batches'[k2] = batches[k2]
                    /\ loc'[p].in = in
          /\ (pc'[p] = "reg_tx" /\ pc[p] # "reg_tx")
             => pc[p] \in {"reg_merge", "reg_insert", "reg_fb_merge"}
          /\ (pc[p] = "reg_tx" /\ pc'[p] # "reg_tx")
             => /\ Len(txlog') = Len(txlog) + 1
                /\ SubSeq(txlog', 1, Len(txlog)) = txlog
                /\ txlog'[Len(txlog')].type = "IN"
                /\ txlog'[Len(txlog')].Hub_ID = loc[p].in.Hub_ID
                /\ txlog'[Len(txlog')].Batch_No = loc[p].batch_no_used
                /\ txlog'[Len(txlog')].Quantity = loc[p].in.Quantity
                /\ UNCHANGED batches
                /\ pc'[p] = "idle"
                /\ result'[p].kind = "ok"
                /\ result'[p].Batch_No = loc[p].batch_no_used]_vars

\* C25, the case: two registrations ended well, the second on the fallback
\* path (the batch holds both quantities and values but the unit price of the
\* first alone), and the log holds one IN transaction for each
C25_Witness ==
    /\ \A p \in Procs : /\ pc[p] = "idle"
                        /\ result[p].kind = "ok"
                        /\ result[p].op = "register"
    /\ Len(txlog) = 2
    /\ \E k \in DOMAIN batches :
          /\ StockInTxns(k) = {1, 2}
          /\ batches[k].Quantity = txlog[1].Quantity + txlog[2].Quantity
          /\ GetUnitPrice(batches[k])
                # Rat(GetValue(batches[k]), batches[k].Quantity)

\* C26: a RegisterIncoming call for a hub that does not exist, and a Dispatch
\* call whose source or destination hub does not exist, end at once with
\* HubNotFound and leave the products, the batches, the transaction log and
\* the dispatches (and the drivers and vehicles) as they were.
C26_UnknownHubRejected ==
    [][\A p \in Procs :
          /\ \A in \in GateRegInputs :
                (RegisterStart(p, in) /\ ~(in.Hub_ID \in Hubs))
                => /\ pc'[p] = "idle"
                   /\ result'[p].kind = "HubNotFound"
                   /\ UNCHANGED dbvars
          /\ \A in \in GateDispatchInputs :
                (/\ DispatchStart(p, in)
                 /\ ~(in.From_Hub_ID \in Hubs /\ in.To_Hub_ID \in Hubs))
                => /\ pc'[p] = "idle"
                   /\ result'[p].kind = "HubNotFound"
                   /\ UNCHANGED dbvars]_vars

\* C26, the case: hub A holds stock, one handler's last call was a
\* registration rejected with HubNotFound, the other's a dispatch rejected
\* with HubNotFound, and the stock is there and no dispatch was recorded
C26_Witness ==
    /\ \A p \in Procs : pc[p] = "idle" /\ result[p].kind = "HubNotFound"
    /\ \E p \in Procs : result[p].op = "register"
    /\ \E p \in Procs : result[p].op = "dispatch"
    /\ TotalAvailable("A") > 0
    /\ dispatches = <<>>
    /\ \A k \in DOMAIN batches : k[1] \in Hubs

\* C27: an AddStock call answers merged exactly when the batch it added to
\* was there before it added, and answers as NewQuantityTotalInBatch the
\* quantity that batch, of the call's hub and the answered batch number, holds
\* when the call ends.
C27_NewTotalIsOfTheBatch ==
    [][\A p \in Procs :
          /\ (pc[p] \in {"upd_merge", "upd_insert"} /\ pc'[p] = "upd_tx")
             => loc'[p].merged
                   = (<<loc[p].in.Hub_ID, loc'[p].batch_no_used>> \in DOMAIN batches)
          /\ (pc[p] = "upd_return" /\ pc'[p] = "idle")
             => /\ result'[p].kind = "ok"
                /\ result'[p].Merged = loc[p].merged
                /\ result'[p].NewQuantityTotalInBatch
                      = batches'[<<loc[p].in.Hub_ID, result'[p].Batch_No>>].Quantity]_vars

\* the master fields a payload does not give are those of the document
\* before, and those it gives are the payload's
OnlyGivenFields(before, after, in) ==
    /\ after.Product_Name
          = IF in.Product_Name # NoField THEN in.Product_Name ELSE before.Product_Name
    /\ after.Selling_Price
          = IF in.Selling_Price # NoSellingPrice
            THEN in.Selling_Price ELSE before.Selling_Price
    /\ after.Category
          = IF in.Category # NoField THEN in.Category ELSE before.Category
    /\ after.Product_Description
          = IF in.Product_Description # NoField
            THEN in.Product_Description ELSE before.Product_Description
    /\ after.Brand = IF in.Brand # NoField THEN in.Brand ELSE before.Brand

\* C28: an UpdateMaster/AddStock call for a product that is not registered
\* ends at once with ProductNotFound and changes nothing; a call without a
\* quantity for a registered product writes at most the master fields it
\* gives, ends well without adding stock, and leaves every batch, the
\* transaction log and the dispatches as they were.
C28_NoProductOrNoQuantity ==
    [][\A p \in Procs :
          /\ \A in \in RestockInputs :
                UpdateStart(p, in)
                => IF ProductId \notin DOMAIN products
                   THEN /\ pc'[p] = "idle"
                        /\ result'[p].kind = "ProductNotFound"
                        /\ UNCHANGED dbvars
                   ELSE in.Quantity = NoQuantity
                        => /\ UNCHANGED dbvars
                           /\ IF HasMasterUpdate(in)
                              THEN pc'[p] = "upd_master"
                              ELSE /\ pc'[p] = "idle"
                                   /\ result'[p].kind = "ok"
                                   /\ result'[p].stock = FALSE
          /\ (pc[p] = "upd_master" /\ pc'[p] # "upd_master"
                /\ loc[p].in.Quantity = NoQuantity)
             => /\ UNCHANGED <<batches, txlog, dispatches, drivers, vehicles>>
                /\ DOMAIN products' = DOMAIN products
                /\ OnlyGivenFields(products[ProductId], products'[ProductId],
                                   loc[p].in)
                /\ pc'[p] = "idle"
                /\ result'[p].kind = "ok"
                /\ result'[p].stock = FALSE]_vars

\* C28, the case: the product is registered with stock, the last call was an
\* UpdateMaster without a quantity that gave a new selling price; the price is
\* the new one, the name is the registered one, and the one batch and the one
\* transaction of the registration are all there is
C28_Witness ==
    /\ pc[SerialProc] = "idle"
    /\ result[SerialProc].kind = "ok"
    /\ result[SerialProc].op = "update"
    /\ result[SerialProc].stock = FALSE
    /\ ProductId \in DOMAIN products
    /\ products[ProductId].Selling_Price = 50
    /\ products[ProductId].Product_Name = "rice"
    /\ Cardinality(DOMAIN batches) = 1
    /\ Len(txlog) = 1

\* C29: the master step of a RegisterIncoming call creates the product master
\* from the payload when there is none, and otherwise leaves its name,
\* category and brand as they are and its selling price and description as
\* they are or as the payload gives them; no other step of the call writes
\* the product master, and no step of any operation removes a product.
C29_MasterKeepsIdentity ==
    [][/\ DOMAIN products \subseteq DOMAIN products'
       /\ \A p \in Procs :
             /\ (pc[p] = "reg_master" /\ pc'[p] # "reg_master")
                => LET in == loc[p].in IN
                   IF ProductId \notin DOMAIN products
                   THEN /\ ProductId \in DOMAIN products'
                        /\ products'[ProductId].Product_Name = in.Product_Name
                        /\ products'[ProductId].Category = in.Category
                        /\ products'[ProductId].Brand = in.Brand
                        /\ products'[ProductId].Selling_Price = in.Selling_Price
                        /\ products'[ProductId].Product_Description
                              = in.Product_Description
                   ELSE LET before == products[ProductId]
                            after == products'[ProductId]
                        IN  /\ after.Product_Name = before.Product_Name
                            /\ after.Category = before.Category
                            /\ after.Brand = before.Brand
                            /\ after.Selling_Price
                                  \in {before.Selling_Price, in.Selling_Price}
                            /\ after.Product_Description
                                  \in {before.Product_Description,
                                       in.Product_Description}
             /\ (pc[p] \in (RegisterLabels \cup {"reg_tx"}) \ {"reg_master"}
                   /\ pc'[p] # pc[p])
                => UNCHANGED products
             /\ (pc[p] = "idle" /\ pc'[p] \in RegisterLabels)
                => UNCHANGED products]_vars

\* C29, the case: the product was registered as rice and then again as wheat
\* with another category, brand, price and description; the master is still
\* rice of its category and brand, with the new price and description
C29_Witness ==
    /\ \A p \in Procs : pc[p] = "idle"
    /\ Len(txlog) = 2
    /\ ProductId \in DOMAIN products
    /\ products[ProductId].Product_Name = "rice"
    /\ products[ProductId].Category = "grains"
    /\ products[ProductId].Brand = "none"
    /\ products[ProductId].Selling_Price = 50
    /\ products[ProductId].Product_Description = "new"

\* the instant of expiry is less than WarnDays days after the tick
ExpiresWithinWarnDays(expiry, tick) ==
    ExpiryInstant(expiry) - tick < WarnDays * TicksPerDay

\* C30: a stock-in call that runs alone, whatever its expiry date, adds its
\* quantity to the batch it merges into or creates (a created batch is active
\* and carries the expiry date given, past or not), appends its IN
\* transaction and ends well; its answer carries a warning exactly when an
\* expiry date was given and the expiry is less than WarnDays days after the
\* call's clock reading.
C30_WarningIsAdvisory ==
    [][\A p \in Procs :
          /\ (pc[p] \in {"reg_merge", "reg_insert", "upd_merge", "upd_insert"}
                /\ pc'[p] # pc[p])
             => LET in == loc[p].in
                    k == <<in.Hub_ID, loc'[p].batch_no_used>>
                IN  /\ pc'[p] \in {"reg_tx", "upd_tx"}
                    /\ DOMAIN batches' = DOMAIN batches \cup {k}
                    /\ batches'[k].Quantity = QuantityAt(batches, k) + in.Quantity
                    /\ k \notin DOMAIN batches
                       => /\ batches'[k].Expiry_Date = in.Expiry_Date
                          /\ batches'[k].status = "active"
                    /\ loc'[p].in = in
                    /\ loc'[p].now = loc[p].now
          /\ (pc[p] \in {"reg_tx", "upd_tx"} /\ pc'[p] # pc[p])
             => /\ Len(txlog') = Len(txlog) + 1
                /\ txlog'[Len(txlog')].type = "IN"
                /\ txlog'[Len(txlog')].Hub_ID = loc[p].in.Hub_ID
                /\ txlog'[Len(txlog')].Batch_No = loc[p].batch_no_used
                /\ txlog'[Len(txlog')].Quantity = loc[p].in.Quantity
          /\ (pc[p] = "upd_tx" /\ pc'[p] # "upd_tx")
             => pc'[p] = "upd_return" /\ loc'[p] = loc[p]
          /\ (pc[p] \in {"reg_tx", "upd_return"} /\ pc'[p] # pc[p])
             => LET in == loc[p].in IN
                /\ pc'[p] = "idle"
                /\ result'[p].kind = "ok"
                /\ result'[p].Quantity_Added = in.Quantity
                /\ result'[p].warning
                      = (/\ in.Expiry_Date # MissingDate
                         /\ ExpiresWithinWarnDays(in.Expiry_Date, loc[p].now))]_vars

\* C30, the case: stock with an expiry day in the past was taken in, and the
\* last call, a stock-in expiring exactly WarnDays days after its clock
\* reading, ended well without a warning
C30_Witness ==
    /\ pc[SerialProc] = "idle"
    /\ result[SerialProc].kind = "ok"
    /\ result[SerialProc].op \in {"register", "update"}
    /\ result[SerialProc].warning = FALSE
    /\ Len(txlog) = 2
    /\ \E k \in DOMAIN batches :
          /\ batches[k].Expiry_Date < 0
          /\ batches[k].status = "active"
          /\ batches[k].Quantity > 0
    /\ \E k \in DOMAIN batches :
          /\ batches[k].Expiry_Date = WarnDays + 1
          /\ ExpiryInstant(batches[k].Expiry_Date) - batches[k].created_at
                = WarnDays * TicksPerDay

----------------------------------------------------------------------------
(* The transaction log *)

\* _gen_transaction_id: "txn-" and the 32 hex digits of a uuid4, drawn anew
\* for every document inserted; the document at position i of the log
\* carries the i-th value drawn
TransactionId(i) == <<"txn", i>>

C32_ConcurrentMergesAddUp ==
    (\A p \in Procs : pc[p] = "idle")
    => \A k \in DOMAIN batches :
          /\ batches[k].Quantity = TxnQty(StockInTxns(k))
          /\ batches[k].Purchase_Unit_Price
                = RatDivInt(TxnValue(StockInTxns(k)), TxnQty(StockInTxns(k)))

\* C33: once two concurrent RegisterIncoming calls that name the same batch
\* number for a hub that exists have both ended, both have succeeded, one
\* batch exists, its quantity is the sum of the quantities of the calls and
\* its unit price is the total value of the calls over their total quantity.
C33_LostInsertRecovered ==
    (\A p \in Procs : /\ pc[p] = "idle"
                      /\ result[p].op = "register"
                      /\ result[p].kind # "HubNotFound")
    => /\ \A p \in Procs : result[p].kind = "ok"
       /\ Cardinality(DOMAIN batches) = 1
       /\ \A k \in DOMAIN batches :
             /\ batches[k].Quantity = TxnQty(StockInTxns(k))
             /\ batches[k].Purchase_Unit_Price
                   = RatDivInt(TxnValue(StockInTxns(k)), TxnQty(StockInTxns(k)))

\* the In-Transit dispatches that name driver x / vehicle v
HoldingDriver(x) ==
    {d \in DOMAIN dispatches : /\ dispatches[d].Status = "In-Transit"
                               /\ dispatches[d].Driver_Assigned = x}

HoldingVehicle(v) ==
    {d \in DOMAIN dispatches : /\ dispatches[d].Status = "In-Transit"
                               /\ dispatches[d].Vehicle_Assigned = v}

\* C34: whenever no operation is in progress, every driver that is marked
\* busy is named by exactly one In-Transit dispatch, and so is every vehicle
\* that is marked busy.
C34_NoResourceLeak ==
    (\A p \in Procs : pc[p] = "idle")
    => /\ \A x \in Drivers :
             drivers[x] # "active" => Cardinality(HoldingDriver(x)) = 1
       /\ \A v \in Vehicles :
             vehicles[v] # "Available" => Cardinality(HoldingVehicle(v)) = 1

\* C35: the step of a RegisterIncoming call that writes the batch (creating
\* it, merging by expiry date, or merging into the batch the caller named,
\* whatever its status) raises the total available quantity of the hub, the
\* sum over its active batches, by the quantity of the call; the call then
\* logs its transaction and succeeds.
C35_StockInRaisesAvailable ==
    [][\A p \in Procs, h \in Hubs :
          /\ (/\ pc[p] \in {"reg_merge", "reg_insert"}
              /\ pc'[p] = "reg_tx"
              /\ loc[p].in.Hub_ID = h)
             => TotalAvailable(h)' = TotalAvailable(h) + loc[p].in.Quantity
          /\ (pc[p] = "reg_tx" /\ pc'[p] # "reg_tx" /\ loc[p].in.Hub_ID = h)
             => /\ result'[p].kind = "ok"
                /\ result'[p].Quantity_Added = loc[p].in.Quantity
                /\ TotalAvailable(h)' = TotalAvailable(h)]_vars

\* C36: every active batch has an expiry date, and a batch that MarkReceived
\* created at the destination hub carries the expiry date of the batch of
\* that number at the hub it came from (in a ledger where receipts alone
\* bring a batch number to a second hub: batches of one number agree on
\* their expiry date).
C36_ReceivedBatchKeepsExpiry ==
    /\ \A k \in DOMAIN batches :
          batches[k].status = "active" => batches[k].Expiry_Date # MissingDate
    /\ \A k1, k2 \in DOMAIN batches :
          k1[2] = k2[2] => batches[k1].Expiry_Date = batches[k2].Expiry_Date

\* the quantity of batch number batch_no in a consumption trace
RECURSIVE EntryQty(_, _)
EntryQty(trace, batch_no) ==
    IF trace = <<>> THEN 0
    ELSE (IF Head(trace).Batch_No = batch_no THEN Head(trace).Qty ELSE 0)
            + EntryQty(Tail(trace), batch_no)

\* what the dispatch records of S say was taken from the batch numbered
\* batch_no
RECURSIVE TracedBy(_, _)
TracedBy(S, batch_no) ==
    IF S = {} THEN 0
    ELSE LET d == CHOOSE x \in S : TRUE
         IN  EntryQty(dispatches[d].Batch_Consumption, batch_no)
                + TracedBy(S \ {d}, batch_no)

\* what the persisted dispatch records say was taken from batch k
TracedOut(k) ==
    TracedBy({d \in DOMAIN dispatches : dispatches[d].From_Hub_ID = k[1]}, k[2])

\* C37: whenever no call is under way, also after a Dispatch call that
\* stopped part-way, what was taken out of a batch is what the consumption
\* traces of the persisted dispatch records say: the OUT transactions of the
\* batch carry that quantity, and the batch holds what was stocked into it
\* minus that quantity.
C37_StoppedDispatchIsTraced ==
    (\A p \in Procs : pc[p] = "idle")
    => \A k \in DOMAIN batches :
          /\ TxnQty(StockOutTxns(k)) = TracedOut(k)
          /\ batches[k].Quantity = TxnQty(StockInTxns(k)) - TracedOut(k)

\* no dispatch is pending or on the road
NoneInFlight ==
    \A d \in DOMAIN dispatches : dispatches[d].Status = "Completed"

\* every driver and every vehicle is idle
FleetIdle ==
    /\ \A x \in Drivers : drivers[x] = "active"
    /\ \A v \in Vehicles : vehicles[v] = "Available"

\* C38: under fair scheduling every dispatch that was created is Completed
\* at some time, and from a time when no dispatch is in flight the system
\* comes to a state where every driver and every vehicle is idle.
C38_EveryDispatchCompletes ==
    /\ \A d \in YardReceiveInputs : <>(dispatches[d].Status = "Completed")
    /\ NoneInFlight ~> FleetIdle

====
